---- MODULE Spec2Model ----
(***************************************************************************)
(* rs-ach: the ACH file parser (src/src/parser.rs).                        *)
(*                                                                         *)
(* A line is a sequence of one-character strings.  `content` is the input  *)
(* as the sequence of physical lines that str::lines() yields.  The parser *)
(* is the state machine of parse_ach_file / parse_batch, one action per    *)
(* program point; the record decoders are operators on a line.             *)
(***************************************************************************)
EXTENDS Integers, Sequences, FiniteSets, TLC

VARIABLES content, lines, line_idx, pc, file_header, batches, header,
          entries, entry, result, prev, edits

vars == <<content, lines, line_idx, pc, file_header, batches, header,
          entries, entry, result, prev, edits>>

(***************************************************************************)
(* Bounds of the model.                                                    *)
(***************************************************************************)
MaxLines == 8
MaxBase == 6
MaxEdits == 2
MaxFillerLines == 4

(***************************************************************************)
(* Text helpers.                                                           *)
(***************************************************************************)
Rep(c, n) == [i \in 1..n |-> c]

\* &line[a..b] : the half-open, 0-based byte range [a, b) of a line.
Slice(line, a, b) == SubSeq(line, a + 1, b)

Whitespace == {" "}

Digits == {"0", "1", "2", "3", "4", "5", "6", "7", "8", "9"}

RECURSIVE TrimStart(_)
TrimStart(s) ==
    IF Len(s) > 0 /\ s[1] \in Whitespace THEN TrimStart(Tail(s)) ELSE s

RECURSIVE TrimEnd(_)
TrimEnd(s) ==
    IF Len(s) > 0 /\ s[Len(s)] \in Whitespace
    THEN TrimEnd(SubSeq(s, 1, Len(s) - 1))
    ELSE s

\* str::trim
Trim(s) == TrimEnd(TrimStart(s))

DigitValue(c) ==
    CASE c = "0" -> 0 [] c = "1" -> 1 [] c = "2" -> 2 [] c = "3" -> 3
      [] c = "4" -> 4 [] c = "5" -> 5 [] c = "6" -> 6 [] c = "7" -> 7
      [] c = "8" -> 8 [] c = "9" -> 9

RECURSIVE DecimalValue(_, _)
DecimalValue(s, acc) ==
    IF Len(s) = 0 THEN acc
    ELSE DecimalValue(Tail(s), 10 * acc + DigitValue(s[1]))

\* str::parse::<u64> : an optional leading '+', then one or more digits.
\* The numeric fields of a record are at most 12 characters wide, so the
\* value always fits 64 bits and the overflow fault cannot occur.
U64Digits(s) == IF Len(s) > 0 /\ s[1] = "+" THEN Tail(s) ELSE s

IsU64(s) ==
    /\ Len(U64Digits(s)) > 0
    /\ \A i \in 1..Len(U64Digits(s)) : U64Digits(s)[i] \in Digits

\* The IntErrorKind of the ParseIntError of a failed parse.
ParseIntError(s) == IF Len(s) = 0 THEN "Empty" ELSE "InvalidDigit"

(***************************************************************************)
(* AchError (src/src/error.rs) and Result.                                 *)
(***************************************************************************)
InvalidRecordType(code) == [kind |-> "InvalidRecordType", code |-> code]

InvalidLineLength(n) == [kind |-> "InvalidLineLength", len |-> n]

InvalidNumber(field, source) ==
    [kind |-> "InvalidNumber", field |-> field, source |-> source]

InvalidStructure(msg) == [kind |-> "InvalidStructure", msg |-> msg]

EmptyFile == [kind |-> "EmptyFile"]

IncompleteBatch(msg) == [kind |-> "IncompleteBatch", msg |-> msg]

Ok(v) == [ok |-> TRUE, val |-> v]

Err(e) == [ok |-> FALSE, err |-> e]

\* A local that holds no value yet.
None == [none |-> TRUE]

(***************************************************************************)
(* Line filter, classifier and length check.                               *)
(***************************************************************************)
\* Variants of the filter: one that drops only full-width filler lines, one
\* that looks at the first character only.
IsPaddingFullWidth(line) ==
    Len(line) = 94 /\ \A i \in 1..Len(line) : line[i] = "9"

IsPaddingByFirstChar(line) == Len(line) = 0 \/ line[1] = "9"

\* line.chars().all(|c| c == '9')
IsPadding(line) == \A i \in 1..Len(line) : line[i] = "9"

\* Variant: only the lines of one or more filler digits are removed.
KeepLineEmpty(line) == Len(line) = 0 \/ ~IsPadding(line)

KeepLine(line) == ~IsPadding(line)

FilterLines(c) == SelectSeq(c, KeepLine)

get_record_type(line) ==
    IF Len(line) = 0 THEN Err(InvalidLineLength(0))
    ELSE Ok([code |-> Slice(line, 0, 1)])

RecordLen == 94

\* Variant: only lines that are too short are rejected.
validate_line_length_short_only(line) ==
    IF Len(line) < 94 THEN Err(InvalidLineLength(Len(line)))
    ELSE Ok(None)

\* Variant: only the lines that are too long are rejected.
validate_line_length_long_only(line) ==
    IF Len(line) > 94 THEN Err(InvalidLineLength(Len(line)))
    ELSE Ok(None)

validate_line_length(line) ==
    IF Len(line) # RecordLen THEN Err(InvalidLineLength(Len(line)))
    ELSE Ok(None)

\* Variant: a blank field is read as zero.
parse_u64_blank_is_zero(s, field_name) ==
    IF Len(Trim(s)) = 0 THEN Ok([n |-> 0])
    ELSE IF IsU64(Trim(s))
    THEN Ok([n |-> DecimalValue(U64Digits(Trim(s)), 0)])
    ELSE Err(InvalidNumber(field_name, ParseIntError(Trim(s))))

\* Variant: the number is read as a signed integer and its sign dropped.
parse_u64_signed(s, field_name) ==
    LET t == IF Len(Trim(s)) > 0 /\ Trim(s)[1] = "-" THEN Tail(Trim(s)) ELSE Trim(s)
    IN  IF IsU64(t)
        THEN Ok([n |-> DecimalValue(U64Digits(t), 0)])
        ELSE Err(InvalidNumber(field_name, ParseIntError(t)))

parse_u64(s, field_name) ==
    IF IsU64(Trim(s))
    THEN Ok([n |-> DecimalValue(U64Digits(Trim(s)), 0)])
    ELSE Err(InvalidNumber(field_name, ParseIntError(Trim(s))))

(***************************************************************************)
(* Record decoders.                                                        *)
(***************************************************************************)
parse_file_header(line) ==
    IF ~validate_line_length(line).ok THEN validate_line_length(line)
    ELSE IF Slice(line, 0, 1) # <<"1">>
    THEN Err(InvalidRecordType(Slice(line, 0, 1)))
    ELSE Ok([record_type |-> Slice(line, 0, 1),
             priority_code |-> Slice(line, 1, 3),
             immediate_destination |-> Slice(line, 3, 13),
             immediate_origin |-> Slice(line, 13, 23),
             file_creation_date |-> Slice(line, 23, 29),
             file_creation_time |-> Slice(line, 29, 33),
             file_id_modifier |-> Slice(line, 33, 34),
             record_size |-> Slice(line, 34, 37),
             blocking_factor |-> Slice(line, 37, 39),
             format_code |-> Slice(line, 39, 40),
             immediate_destination_name |-> Slice(line, 40, 63),
             immediate_origin_name |-> Slice(line, 63, 86),
             reference_code |-> Slice(line, 86, 94)])

parse_batch_header(line) ==
    IF ~validate_line_length(line).ok THEN validate_line_length(line)
    ELSE IF Slice(line, 0, 1) # <<"5">>
    THEN Err(InvalidRecordType(Slice(line, 0, 1)))
    ELSE Ok([record_type |-> Slice(line, 0, 1),
             service_class_code |-> Slice(line, 1, 4),
             company_name |-> Slice(line, 4, 20),
             company_discretionary_data |-> Slice(line, 20, 40),
             company_identification |-> Slice(line, 40, 50),
             standard_entry_class_code |-> Slice(line, 50, 53),
             company_entry_description |-> Slice(line, 53, 63),
             company_descriptive_date |-> Slice(line, 63, 69),
             effective_entry_date |-> Slice(line, 69, 75),
             settlement_date |-> Slice(line, 75, 78),
             originator_status_code |-> Slice(line, 78, 79),
             originating_dfi_identification |-> Slice(line, 79, 87),
             batch_number |-> Slice(line, 87, 94)])

parse_entry_detail(line) ==
    IF ~validate_line_length(line).ok THEN validate_line_length(line)
    ELSE IF Slice(line, 0, 1) # <<"6">>
    THEN Err(InvalidRecordType(Slice(line, 0, 1)))
    ELSE IF ~parse_u64(Slice(line, 29, 39), "amount").ok
    THEN parse_u64(Slice(line, 29, 39), "amount")
    ELSE Ok([record_type |-> Slice(line, 0, 1),
             transaction_code |-> Slice(line, 1, 3),
             receiving_dfi_identification |-> Slice(line, 3, 11),
             check_digit |-> Slice(line, 11, 12),
             dfi_account_number |-> Slice(line, 12, 29),
             amount |-> parse_u64(Slice(line, 29, 39), "amount").val.n,
             individual_identification_number |-> Slice(line, 39, 54),
             individual_name |-> Slice(line, 54, 76),
             discretionary_data |-> Slice(line, 76, 78),
             addenda_record_indicator |-> Slice(line, 78, 79),
             trace_number |-> Slice(line, 79, 94),
             addenda |-> <<>>])

\* Variant: the boundary between the last two fields is one byte off.
parse_addenda_shifted(line) ==
    IF ~validate_line_length(line).ok THEN validate_line_length(line)
    ELSE IF Slice(line, 0, 1) # <<"7">>
    THEN Err(InvalidRecordType(Slice(line, 0, 1)))
    ELSE Ok([record_type |-> Slice(line, 0, 1),
             addenda_type_code |-> Slice(line, 1, 3),
             payment_related_information |-> Slice(line, 3, 83),
             addenda_sequence_number |-> Slice(line, 83, 88),
             entry_detail_sequence_number |-> Slice(line, 88, 94)])

parse_addenda(line) ==
    IF ~validate_line_length(line).ok THEN validate_line_length(line)
    ELSE IF Slice(line, 0, 1) # <<"7">>
    THEN Err(InvalidRecordType(Slice(line, 0, 1)))
    ELSE Ok([record_type |-> Slice(line, 0, 1),
             addenda_type_code |-> Slice(line, 1, 3),
             payment_related_information |-> Slice(line, 3, 83),
             addenda_sequence_number |-> Slice(line, 83, 87),
             entry_detail_sequence_number |-> Slice(line, 87, 94)])

\* Variant: the numeric fields are parsed before the record type is checked,
\* the credit total first.
parse_batch_control_numbers_first(line) ==
    LET n1 == parse_u64(Slice(line, 4, 10), "entry_addenda_count")
        n2 == parse_u64(Slice(line, 10, 20), "entry_hash")
        n3 == parse_u64(Slice(line, 20, 32), "total_debit_amount")
        n4 == parse_u64(Slice(line, 32, 44), "total_credit_amount")
    IN  IF ~validate_line_length(line).ok THEN validate_line_length(line)
        ELSE IF ~n4.ok THEN n4
        ELSE IF ~n1.ok THEN n1
        ELSE IF ~n2.ok THEN n2
        ELSE IF ~n3.ok THEN n3
        ELSE IF Slice(line, 0, 1) # <<"8">>
        THEN Err(InvalidRecordType(Slice(line, 0, 1)))
        ELSE Ok([record_type |-> Slice(line, 0, 1),
                 service_class_code |-> Slice(line, 1, 4),
                 entry_addenda_count |-> n1.val.n,
                 entry_hash |-> n2.val.n,
                 total_debit_amount |-> n3.val.n,
                 total_credit_amount |-> n4.val.n,
                 company_identification |-> Slice(line, 44, 54),
                 message_authentication_code |-> Slice(line, 54, 73),
                 reserved |-> Slice(line, 73, 79),
                 originating_dfi_identification |-> Slice(line, 79, 87),
                 batch_number |-> Slice(line, 87, 94)])

parse_batch_control(line) ==
    LET n1 == parse_u64(Slice(line, 4, 10), "entry_addenda_count")
        n2 == parse_u64(Slice(line, 10, 20), "entry_hash")
        n3 == parse_u64(Slice(line, 20, 32), "total_debit_amount")
        n4 == parse_u64(Slice(line, 32, 44), "total_credit_amount")
    IN  IF ~validate_line_length(line).ok THEN validate_line_length(line)
        ELSE IF Slice(line, 0, 1) # <<"8">>
        THEN Err(InvalidRecordType(Slice(line, 0, 1)))
        ELSE IF ~n1.ok THEN n1
        ELSE IF ~n2.ok THEN n2
        ELSE IF ~n3.ok THEN n3
        ELSE IF ~n4.ok THEN n4
        ELSE Ok([record_type |-> Slice(line, 0, 1),
                 service_class_code |-> Slice(line, 1, 4),
                 entry_addenda_count |-> n1.val.n,
                 entry_hash |-> n2.val.n,
                 total_debit_amount |-> n3.val.n,
                 total_credit_amount |-> n4.val.n,
                 company_identification |-> Slice(line, 44, 54),
                 message_authentication_code |-> Slice(line, 54, 73),
                 reserved |-> Slice(line, 73, 79),
                 originating_dfi_identification |-> Slice(line, 79, 87),
                 batch_number |-> Slice(line, 87, 94)])

parse_file_control(line) ==
    LET n1 == parse_u64(Slice(line, 1, 7), "batch_count")
        n2 == parse_u64(Slice(line, 7, 13), "block_count")
        n3 == parse_u64(Slice(line, 13, 21), "entry_addenda_count")
        n4 == parse_u64(Slice(line, 21, 31), "entry_hash")
        n5 == parse_u64(Slice(line, 31, 43), "total_debit_amount")
        n6 == parse_u64(Slice(line, 43, 55), "total_credit_amount")
    IN  IF ~validate_line_length(line).ok THEN validate_line_length(line)
        ELSE IF Slice(line, 0, 1) # <<"9">>
        THEN Err(InvalidRecordType(Slice(line, 0, 1)))
        ELSE IF ~n1.ok THEN n1
        ELSE IF ~n2.ok THEN n2
        ELSE IF ~n3.ok THEN n3
        ELSE IF ~n4.ok THEN n4
        ELSE IF ~n5.ok THEN n5
        ELSE IF ~n6.ok THEN n6
        ELSE Ok([record_type |-> Slice(line, 0, 1),
                 batch_count |-> n1.val.n,
                 block_count |-> n2.val.n,
                 entry_addenda_count |-> n3.val.n,
                 entry_hash |-> n4.val.n,
                 total_debit_amount |-> n5.val.n,
                 total_credit_amount |-> n6.val.n,
                 reserved |-> Slice(line, 55, 94)])

\* AchFile and Batch (src/src/lib.rs).
AchFile(fh, bs, fc) == [file_header |-> fh, batches |-> bs, file_control |-> fc]

Batch(h, es, c) == [header |-> h, entries |-> es, control |-> c]

\* Variant: the addenda is put in front of the list.
PushAddendaFront(e, a) == [e EXCEPT !.addenda = <<a>> \o @]

\* Variant: pushing an addenda also sets the entry's addenda indicator.
PushAddendaSetsIndicator(e, a) ==
    [e EXCEPT !.addenda = Append(@, a), !.addenda_record_indicator = <<"1">>]

\* entry.addenda.push(addenda)
PushAddenda(e, a) == [e EXCEPT !.addenda = Append(@, a)]

(***************************************************************************)
(* Inputs.  The well-formed files of at most MaxLines lines, and every     *)
(* file that differs from one of them by one line replaced, inserted or    *)
(* removed, or by truncation; the lines are drawn from a pool that holds   *)
(* every discriminant at the right and at wrong lengths, unparsable        *)
(* numeric fields, and filler lines.                                       *)
(***************************************************************************)
\* The characters of a text field: the letter at offset p is the (p mod 26)-th
\* of the alphabet, so that two different ranges of a line never hold the
\* same text.
Alpha ==
    <<"A", "B", "C", "D", "E", "F", "G", "H", "I", "J", "K", "L", "M",
      "N", "O", "P", "Q", "R", "S", "T", "U", "V", "W", "X", "Y", "Z">>

Pattern(a, b) == [i \in 1..(b - a) |-> Alpha[((a + i - 1) % 26) + 1]]

\* The line with the characters of [a:b) replaced by t.
SetSlice(line, a, b, t) == SubSeq(line, 1, a) \o t \o SubSeq(line, b + 1, Len(line))

ZeroPad(ds, w) == Rep("0", w - Len(ds)) \o ds

FH == <<"1">> \o Pattern(1, 94)

BH(tag) == SetSlice(<<"5">> \o Pattern(1, 94), 4, 5, <<tag>>)

ED(tag) ==
    SetSlice(SetSlice(<<"6">> \o Pattern(1, 94), 2, 3, <<tag>>), 29, 39,
             Rep(" ", 3) \o <<"1", "0", "0", "0">> \o Rep(" ", 3))

EDBadAmount == SetSlice(ED("2"), 29, 39, <<"X", "X">> \o Rep(" ", 8))

AD(tag) == SetSlice(<<"7">> \o Pattern(1, 94), 2, 3, <<tag>>)

BC ==
    <<"8">> \o Pattern(1, 4) \o ZeroPad(<<"4">>, 6) \o ZeroPad(<<"1", "2">>, 10)
        \o ZeroPad(<<"3", "4">>, 12) \o ZeroPad(<<"5", "6">>, 12)
        \o Pattern(44, 94)

BCBadHash == SetSlice(BC, 10, 20, Rep("0", 2) \o <<"X">> \o Rep("0", 7))

FC ==
    <<"9">> \o ZeroPad(<<"1">>, 6) \o ZeroPad(<<"2">>, 6) \o ZeroPad(<<"3">>, 8)
        \o ZeroPad(<<"1", "2">>, 10) \o ZeroPad(<<"3", "4">>, 12)
        \o ZeroPad(<<"5", "6">>, 12) \o Pattern(55, 94)

FCBadCount == SetSlice(FC, 1, 7, Rep(" ", 6))

\* The numeric fields of the record kinds, in the order the decoders parse
\* them: <<name, start, end>>.
NumericFields(c) ==
    CASE c = "6" -> << <<"amount", 29, 39>> >>
      [] c = "8" -> << <<"entry_addenda_count", 4, 10>>,
                       <<"entry_hash", 10, 20>>,
                       <<"total_debit_amount", 20, 32>>,
                       <<"total_credit_amount", 32, 44>> >>
      [] c = "9" -> << <<"batch_count", 1, 7>>,
                       <<"block_count", 7, 13>>,
                       <<"entry_addenda_count", 13, 21>>,
                       <<"entry_hash", 21, 31>>,
                       <<"total_debit_amount", 31, 43>>,
                       <<"total_credit_amount", 43, 55>> >>
      [] OTHER -> <<>>

\* A line of kind c whose i-th numeric field is a negative number.
BadNumber(c, i) ==
    LET f == NumericFields(c)[i]
        base == CASE c = "6" -> ED("2") [] c = "8" -> BC [] c = "9" -> FC
    IN  SetSlice(base, f[2], f[3], <<"-">> \o Rep("1", f[3] - f[2] - 1))

\* A batch control with two unparsable fields.
BCBadTwo == SetSlice(SetSlice(BC, 32, 44, Rep("Y", 12)), 10, 20, Rep(" ", 10))

Filler(n) == Rep("9", n)

Codes == {"1", "5", "6", "7", "8", "9", "X"}

WrongLengths == {3, 95}

\* A line of discriminant c and length n, blank after the discriminant.
Blank(c, n) == <<c>> \o Rep(" ", n - 1)

ShortHeader == <<"1", "0", "1", " ", "1", "2", "3">>

\* The inputs are enumerated as sequences of line names <<kind, tag, n>>;
\* Text gives the characters of a named line.
Text(t) ==
    CASE t[1] = "FH" -> FH
      [] t[1] = "BH" -> BH(t[2])
      [] t[1] = "ED" -> ED(t[2])
      [] t[1] = "AD" -> AD(t[2])
      [] t[1] = "BC" -> BC
      [] t[1] = "FC" -> FC
      [] t[1] = "EDBadAmount" -> EDBadAmount
      [] t[1] = "BCBadHash" -> BCBadHash
      [] t[1] = "FCBadCount" -> FCBadCount
      [] t[1] = "BadNumber" -> BadNumber(t[2], t[3])
      [] t[1] = "BCBadTwo" -> BCBadTwo
      [] t[1] = "ShortHeader" -> ShortHeader
      [] t[1] = "Filler" -> Filler(t[3])
      [] t[1] = "Blank" -> Blank(t[2], t[3])

TextOf(s) == [i \in 1..Len(s) |-> Text(s[i])]

FHName == <<"FH", "", 0>>

BCName == <<"BC", "", 0>>

FCName == <<"FC", "", 0>>

BHs == {<<"BH", "A", 0>>, <<"BH", "B", 0>>}

EDs == {<<"ED", "2", 0>>, <<"ED", "7", 0>>}

ADs == {<<"AD", "5", 0>>, <<"AD", "6", 0>>}

FillerNames == {<<"Filler", "", n>> : n \in {0, 2, 94}}

BadNumberNames ==
    UNION {{<<"BadNumber", c, i>> : i \in 1..Len(NumericFields(c))} :
              c \in {"6", "8", "9"}}

Pool ==
    {FHName, BCName, FCName, <<"EDBadAmount", "", 0>>, <<"BCBadHash", "", 0>>,
     <<"FCBadCount", "", 0>>, <<"ShortHeader", "", 0>>, <<"Blank", "X", 94>>,
     <<"BCBadTwo", "", 0>>}
        \cup BHs \cup EDs \cup ADs \cup FillerNames \cup BadNumberNames
        \cup {<<"Blank", c, n>> : c \in Codes, n \in WrongLengths}

SeqsUpTo(S, n) == UNION {[1..k -> S] : k \in 0..n}

\* The entry lines of a batch, k lines long: entries and addenda, an entry
\* first.
EntrySeqs(k) == {s \in [1..k -> EDs \cup ADs] : k = 0 \/ s[1] \in EDs}

\* The batches of k lines.
BatchLines(k) ==
    IF k < 2 THEN {}
    ELSE {<<h>> \o es \o <<BCName>> : h \in BHs, es \in EntrySeqs(k - 2)}

\* The sequences of batches, k lines long in all.
RECURSIVE BatchSeqs(_)
BatchSeqs(k) ==
    IF k = 0 THEN {<<>>}
    ELSE UNION {{r \o b : r \in BatchSeqs(k - j), b \in BatchLines(j)} : j \in 2..k}

\* The well-formed files of at most n lines.
WellFormedUpTo(n) ==
    UNION {{<<FHName>> \o bs \o <<FCName>> : bs \in BatchSeqs(k)} : k \in 0..(n - 2)}

WellFormed == WellFormedUpTo(MaxLines)

Replace(s, p, l) == [s EXCEPT ![p] = l]

InsertAt(s, p, l) == SubSeq(s, 1, p) \o <<l>> \o SubSeq(s, p + 1, Len(s))

RemoveAt(s, p) == SubSeq(s, 1, p - 1) \o SubSeq(s, p + 1, Len(s))

Malformed ==
    UNION {{Replace(s, p, l) : p \in 1..Len(s), l \in Pool}
             \cup {InsertAt(s, p, l) : p \in 0..Len(s), l \in Pool}
             \cup {RemoveAt(s, p) : p \in 1..Len(s)}
             \cup {SubSeq(s, 1, k) : k \in 0..Len(s)} : s \in WellFormedUpTo(MaxBase)}

Inputs == WellFormed \cup Malformed \cup SeqsUpTo(FillerNames, 2)

(***************************************************************************)
(* The parser: parse_ach_file and parse_batch.                             *)
(***************************************************************************)
\* lines[line_idx]
Cur == lines[line_idx + 1]

AtEnd == line_idx >= Len(lines)

\* Variant: the message counts the lines from one.
UnexpectedAtOneBased(rt, i) ==
    [text |-> "Unexpected record type '{record_type}' at line {line_idx}",
     record_type |-> rt, line_idx |-> i + 1]

UnexpectedAt(rt, i) ==
    [text |-> "Unexpected record type '{record_type}' at line {line_idx}",
     record_type |-> rt, line_idx |-> i]

\* Variant: the message of an unexpected record in a batch gives the position
\* only.
UnexpectedInBatchNoCode(rt, i) ==
    [text |-> "Unexpected record in batch at line {line_idx}", line_idx |-> i]

UnexpectedInBatchAt(rt, i) ==
    [text |-> "Unexpected record type '{record_type}' in batch at line {line_idx}",
     record_type |-> rt, line_idx |-> i]

MissingFileControl == [text |-> "Missing file control record"]

MissingBatchControl == [text |-> "Missing batch control record"]

Init ==
    /\ \E s \in Inputs : content = TextOf(s)
    /\ lines = <<>>
    /\ line_idx = 0
    /\ pc = "start"
    /\ file_header = None
    /\ batches = <<>>
    /\ header = None
    /\ entries = <<>>
    /\ entry = None
    /\ result = None
    /\ prev = None
    /\ edits = 0

\* return Err(e) / the ? operator
Fail(e) ==
    /\ result' = Err(e)
    /\ pc' = "done"

\* parser.rs 17-26: filter the lines, reject the empty file.
ParseStart ==
    /\ pc = "start"
    /\ lines' = FilterLines(content)
    /\ line_idx' = 0
    /\ IF Len(FilterLines(content)) = 0
       THEN Fail(EmptyFile)
       ELSE pc' = "file_header" /\ UNCHANGED result
    /\ UNCHANGED <<content, file_header, batches, header, entries, entry,
                   prev, edits>>

\* Variant: a first line that is no file header is reported as a structural
\* error.
ParseFileHeaderAsStructure ==
    /\ pc = "file_header"
    /\ LET r == parse_file_header(Cur)
       IN  IF ~r.ok
           THEN Fail(InvalidStructure([text |-> "Missing file header record"]))
                /\ UNCHANGED <<file_header, line_idx, batches>>
           ELSE /\ file_header' = r.val
                /\ line_idx' = line_idx + 1
                /\ batches' = <<>>
                /\ pc' = "file_loop"
                /\ UNCHANGED result
    /\ UNCHANGED <<content, lines, header, entries, entry, prev, edits>>

\* parser.rs 29-33
ParseFileHeader ==
    /\ pc = "file_header"
    /\ LET r == parse_file_header(Cur)
       IN  IF ~r.ok
           THEN Fail(r.err) /\ UNCHANGED <<file_header, line_idx, batches>>
           ELSE /\ file_header' = r.val
                /\ line_idx' = line_idx + 1
                /\ batches' = <<>>
                /\ pc' = "file_loop"
                /\ UNCHANGED result
    /\ UNCHANGED <<content, lines, header, entries, entry, prev, edits>>

\* Variant: the file-level loop is left on any line that opens no batch.
FileLoopBreakOnOther ==
    /\ pc = "file_loop"
    /\ IF AtEnd
       THEN pc' = "file_control" /\ UNCHANGED result
       ELSE LET rt == get_record_type(Cur)
            IN  IF ~rt.ok THEN Fail(rt.err)
                ELSE IF rt.val.code = <<"5">>
                THEN pc' = "batch_header" /\ UNCHANGED result
                ELSE pc' = "file_control" /\ UNCHANGED result
    /\ UNCHANGED <<content, lines, line_idx, file_header, batches, header,
                   entries, entry, prev, edits>>

\* Variant: an addenda line outside a batch is skipped.
FileLoopSkipAddenda ==
    /\ pc = "file_loop"
    /\ IF AtEnd
       THEN pc' = "file_control" /\ UNCHANGED <<result, line_idx>>
       ELSE LET rt == get_record_type(Cur)
            IN  IF ~rt.ok THEN Fail(rt.err) /\ UNCHANGED line_idx
                ELSE IF rt.val.code = <<"5">>
                THEN pc' = "batch_header" /\ UNCHANGED <<result, line_idx>>
                ELSE IF rt.val.code = <<"9">>
                THEN pc' = "file_control" /\ UNCHANGED <<result, line_idx>>
                ELSE IF rt.val.code = <<"7">>
                THEN line_idx' = line_idx + 1 /\ UNCHANGED <<pc, result>>
                ELSE Fail(InvalidStructure(UnexpectedAt(rt.val.code, line_idx)))
                     /\ UNCHANGED line_idx
    /\ UNCHANGED <<content, lines, file_header, batches, header,
                   entries, entry, prev, edits>>

\* Variant: outside a batch every line but a file control is handed to
\* parse_batch.
FileLoopBatchOnAny ==
    /\ pc = "file_loop"
    /\ IF AtEnd
       THEN pc' = "file_control" /\ UNCHANGED result
       ELSE LET rt == get_record_type(Cur)
            IN  IF ~rt.ok THEN Fail(rt.err)
                ELSE IF rt.val.code = <<"9">>
                THEN pc' = "file_control" /\ UNCHANGED result
                ELSE pc' = "batch_header" /\ UNCHANGED result
    /\ UNCHANGED <<content, lines, line_idx, file_header, batches, header,
                   entries, entry, prev, edits>>

\* parser.rs 34-47: one test of the while condition and one dispatch.
FileLoop ==
    /\ pc = "file_loop"
    /\ IF AtEnd
       THEN pc' = "file_control" /\ UNCHANGED result
       ELSE LET rt == get_record_type(Cur)
            IN  IF ~rt.ok THEN Fail(rt.err)
                ELSE IF rt.val.code = <<"5">>
                THEN pc' = "batch_header" /\ UNCHANGED result
                ELSE IF rt.val.code = <<"9">>
                THEN pc' = "file_control" /\ UNCHANGED result
                ELSE Fail(InvalidStructure(UnexpectedAt(rt.val.code, line_idx)))
    /\ UNCHANGED <<content, lines, line_idx, file_header, batches, header,
                   entries, entry, prev, edits>>

\* Variant: the end of input is reported with the error of parse_batch.
ParseFileControlAsBatch ==
    /\ pc = "file_control"
    /\ IF AtEnd
       THEN Fail(IncompleteBatch(MissingBatchControl))
       ELSE LET r == parse_file_control(Cur)
            IN  IF ~r.ok THEN Fail(r.err)
                ELSE /\ result' = Ok(AchFile(file_header, batches, r.val))
                     /\ pc' = "done"
    /\ UNCHANGED <<content, lines, line_idx, file_header, batches, header,
                   entries, entry, prev, edits>>

\* Variant: the batch count of the file control is compared with the number
\* of batches parsed.
ParseFileControlCounted ==
    /\ pc = "file_control"
    /\ IF AtEnd
       THEN Fail(InvalidStructure(MissingFileControl))
       ELSE LET r == parse_file_control(Cur)
            IN  IF ~r.ok THEN Fail(r.err)
                ELSE IF r.val.batch_count # Len(batches)
                THEN Fail(InvalidStructure([text |-> "Batch count mismatch"]))
                ELSE /\ result' = Ok(AchFile(file_header, batches, r.val))
                     /\ pc' = "done"
    /\ UNCHANGED <<content, lines, line_idx, file_header, batches, header,
                   entries, entry, prev, edits>>

\* parser.rs 50-62
ParseFileControl ==
    /\ pc = "file_control"
    /\ IF AtEnd
       THEN Fail(InvalidStructure(MissingFileControl))
       ELSE LET r == parse_file_control(Cur)
            IN  IF ~r.ok THEN Fail(r.err)
                ELSE /\ result' = Ok(AchFile(file_header, batches, r.val))
                     /\ pc' = "done"
    /\ UNCHANGED <<content, lines, line_idx, file_header, batches, header,
                   entries, entry, prev, edits>>

\* Variant: a batch header must be followed by an entry.
ParseBatchHeaderNeedsEntry ==
    /\ pc = "batch_header"
    /\ LET r == parse_batch_header(Cur)
       IN  IF ~r.ok
           THEN Fail(r.err) /\ UNCHANGED <<header, line_idx, entries>>
           ELSE IF line_idx + 1 < Len(lines) /\ lines[line_idx + 2][1] # "6"
           THEN Fail(InvalidStructure(
                         UnexpectedInBatchAt(<<lines[line_idx + 2][1]>>,
                                             line_idx + 1)))
                /\ UNCHANGED <<header, line_idx, entries>>
           ELSE /\ header' = r.val
                /\ line_idx' = line_idx + 1
                /\ entries' = <<>>
                /\ pc' = "batch_loop"
                /\ UNCHANGED result
    /\ UNCHANGED <<content, lines, file_header, batches, entry, prev, edits>>

\* parser.rs 68-72
ParseBatchHeader ==
    /\ pc = "batch_header"
    /\ LET r == parse_batch_header(Cur)
       IN  IF ~r.ok
           THEN Fail(r.err) /\ UNCHANGED <<header, line_idx, entries>>
           ELSE /\ header' = r.val
                /\ line_idx' = line_idx + 1
                /\ entries' = <<>>
                /\ pc' = "batch_loop"
                /\ UNCHANGED result
    /\ UNCHANGED <<content, lines, file_header, batches, entry, prev, edits>>

\* Variant: the batch-level loop is left on any line that opens no entry.
BatchLoopBreakOnOther ==
    /\ pc = "batch_loop"
    /\ IF AtEnd
       THEN pc' = "batch_control" /\ UNCHANGED result
       ELSE LET rt == get_record_type(Cur)
            IN  IF ~rt.ok THEN Fail(rt.err)
                ELSE IF rt.val.code = <<"6">>
                THEN pc' = "entry_detail" /\ UNCHANGED result
                ELSE pc' = "batch_control" /\ UNCHANGED result
    /\ UNCHANGED <<content, lines, line_idx, file_header, batches, header,
                   entries, entry, prev, edits>>

\* Variant: a batch header inside a batch opens a nested batch.
BatchLoopNested ==
    /\ pc = "batch_loop"
    /\ IF AtEnd
       THEN pc' = "batch_control" /\ UNCHANGED result
       ELSE LET rt == get_record_type(Cur)
            IN  IF ~rt.ok THEN Fail(rt.err)
                ELSE IF rt.val.code = <<"6">>
                THEN pc' = "entry_detail" /\ UNCHANGED result
                ELSE IF rt.val.code = <<"8">>
                THEN pc' = "batch_control" /\ UNCHANGED result
                ELSE IF rt.val.code = <<"5">>
                THEN pc' = "batch_header" /\ UNCHANGED result
                ELSE Fail(InvalidStructure(
                              UnexpectedInBatchAt(rt.val.code, line_idx)))
    /\ UNCHANGED <<content, lines, line_idx, file_header, batches, header,
                   entries, entry, prev, edits>>

\* parser.rs 73-76, 93-100: one test of the while condition and one dispatch.
BatchLoop ==
    /\ pc = "batch_loop"
    /\ IF AtEnd
       THEN pc' = "batch_control" /\ UNCHANGED result
       ELSE LET rt == get_record_type(Cur)
            IN  IF ~rt.ok THEN Fail(rt.err)
                ELSE IF rt.val.code = <<"6">>
                THEN pc' = "entry_detail" /\ UNCHANGED result
                ELSE IF rt.val.code = <<"8">>
                THEN pc' = "batch_control" /\ UNCHANGED result
                ELSE Fail(InvalidStructure(
                              UnexpectedInBatchAt(rt.val.code, line_idx)))
    /\ UNCHANGED <<content, lines, line_idx, file_header, batches, header,
                   entries, entry, prev, edits>>

\* Variant: an entry line that does not decode is skipped.
ParseEntryDetailSkipOnError ==
    /\ pc = "entry_detail"
    /\ LET r == parse_entry_detail(Cur)
       IN  IF ~r.ok
           THEN /\ line_idx' = line_idx + 1
                /\ pc' = "batch_loop"
                /\ UNCHANGED <<entry, result>>
           ELSE /\ entry' = r.val
                /\ line_idx' = line_idx + 1
                /\ pc' = "addenda_loop"
                /\ UNCHANGED result
    /\ UNCHANGED <<content, lines, file_header, batches, header, entries,
                   prev, edits>>

\* parser.rs 77-78
ParseEntryDetail ==
    /\ pc = "entry_detail"
    /\ LET r == parse_entry_detail(Cur)
       IN  IF ~r.ok
           THEN Fail(r.err) /\ UNCHANGED <<entry, line_idx>>
           ELSE /\ entry' = r.val
                /\ line_idx' = line_idx + 1
                /\ pc' = "addenda_loop"
                /\ UNCHANGED result
    /\ UNCHANGED <<content, lines, file_header, batches, header, entries,
                   prev, edits>>

\* Variant: the entry is put in front of the batch's entries.
PushEntryFront ==
    /\ entries' = <<entry>> \o entries
    /\ pc' = "batch_loop"
    /\ UNCHANGED <<entry, line_idx, result>>

\* parser.rs 92: entries.push(entry)
PushEntry ==
    /\ entries' = Append(entries, entry)
    /\ pc' = "batch_loop"
    /\ UNCHANGED <<entry, line_idx, result>>

\* Variant: the addenda loop decodes the line and leaves the cursor on it.
AddendaLoopNoAdvance ==
    /\ pc = "addenda_loop"
    /\ IF AtEnd
       THEN PushEntry
       ELSE LET rt == get_record_type(Cur)
            IN  IF ~rt.ok
                THEN Fail(rt.err) /\ UNCHANGED <<entry, line_idx, entries>>
                ELSE IF rt.val.code = <<"7">>
                THEN LET r == parse_addenda(Cur)
                     IN  IF ~r.ok
                         THEN Fail(r.err)
                              /\ UNCHANGED <<entry, line_idx, entries>>
                         ELSE /\ entry' = PushAddenda(entry, r.val)
                              /\ UNCHANGED <<line_idx, pc, entries, result>>
                ELSE PushEntry
    /\ UNCHANGED <<content, lines, file_header, batches, header, prev, edits>>

\* Variant: addenda are attached only to an entry whose addenda indicator is
\* "1"; after any other entry the loop is left at once.
AddendaLoopByIndicator ==
    /\ pc = "addenda_loop"
    /\ IF AtEnd
       THEN PushEntry
       ELSE LET rt == get_record_type(Cur)
            IN  IF ~rt.ok
                THEN Fail(rt.err) /\ UNCHANGED <<entry, line_idx, entries>>
                ELSE IF rt.val.code = <<"7">>
                        /\ entry.addenda_record_indicator = <<"1">>
                THEN LET r == parse_addenda(Cur)
                     IN  IF ~r.ok
                         THEN Fail(r.err)
                              /\ UNCHANGED <<entry, line_idx, entries>>
                         ELSE /\ entry' = PushAddenda(entry, r.val)
                              /\ line_idx' = line_idx + 1
                              /\ UNCHANGED <<pc, entries, result>>
                ELSE PushEntry
    /\ UNCHANGED <<content, lines, file_header, batches, header, prev, edits>>

\* parser.rs 81-92: one test of the while condition, one addenda or the
\* break, and the push of the entry when the loop is left.
AddendaLoop ==
    /\ pc = "addenda_loop"
    /\ IF AtEnd
       THEN PushEntry
       ELSE LET rt == get_record_type(Cur)
            IN  IF ~rt.ok
                THEN Fail(rt.err) /\ UNCHANGED <<entry, line_idx, entries>>
                ELSE IF rt.val.code = <<"7">>
                THEN LET r == parse_addenda(Cur)
                     IN  IF ~r.ok
                         THEN Fail(r.err)
                              /\ UNCHANGED <<entry, line_idx, entries>>
                         ELSE /\ entry' = PushAddenda(entry, r.val)
                              /\ line_idx' = line_idx + 1
                              /\ UNCHANGED <<pc, entries, result>>
                ELSE PushEntry
    /\ UNCHANGED <<content, lines, file_header, batches, header, prev, edits>>

\* Variant: the end of input inside a batch is reported as a structural error.
ParseBatchControlAsStructure ==
    /\ pc = "batch_control"
    /\ IF AtEnd
       THEN Fail(InvalidStructure(MissingBatchControl))
            /\ UNCHANGED <<line_idx, batches>>
       ELSE LET r == parse_batch_control(Cur)
            IN  IF ~r.ok
                THEN Fail(r.err) /\ UNCHANGED <<line_idx, batches>>
                ELSE /\ line_idx' = line_idx + 1
                     /\ batches' = Append(batches, Batch(header, entries, r.val))
                     /\ pc' = "file_loop"
                     /\ UNCHANGED result
    /\ UNCHANGED <<content, lines, file_header, header, entries, entry,
                   prev, edits>>

\* parser.rs 103-116 and 39: the batch control, and the push of the batch
\* that parse_batch returns.
ParseBatchControl ==
    /\ pc = "batch_control"
    /\ IF AtEnd
       THEN Fail(IncompleteBatch(MissingBatchControl))
            /\ UNCHANGED <<line_idx, batches>>
       ELSE LET r == parse_batch_control(Cur)
            IN  IF ~r.ok
                THEN Fail(r.err) /\ UNCHANGED <<line_idx, batches>>
                ELSE /\ line_idx' = line_idx + 1
                     /\ batches' = Append(batches, Batch(header, entries, r.val))
                     /\ pc' = "file_loop"
                     /\ UNCHANGED result
    /\ UNCHANGED <<content, lines, file_header, header, entries, entry,
                   prev, edits>>

Next ==
    \/ ParseStart
    \/ ParseFileHeader
    \/ FileLoop
    \/ ParseFileControl
    \/ ParseBatchHeader
    \/ BatchLoop
    \/ ParseEntryDetail
    \/ AddendaLoop
    \/ ParseBatchControl

Spec == Init /\ [][Next]_vars

\* The parser is a sequential program: it keeps running until it returns.
\* Termination is checked on the inputs of at most MaxLiveLines lines.
MaxLiveLines == 4

InitLive ==
    /\ \E s \in {t \in Inputs : Len(t) <= MaxLiveLines} : content = TextOf(s)
    /\ lines = <<>>
    /\ line_idx = 0
    /\ pc = "start"
    /\ file_header = None
    /\ batches = <<>>
    /\ header = None
    /\ entries = <<>>
    /\ entry = None
    /\ result = None
    /\ prev = None
    /\ edits = 0

SpecLive == InitLive /\ [][Next]_vars /\ WF_vars(Next)

(***************************************************************************)
(* A second parse of the same input with one filler line inserted or       *)
(* removed.  `prev` keeps the result of the parse before the edit.         *)
(***************************************************************************)
FillerLengths == {0, 2, 94}

InputsFiller == {s \in Inputs : Len(s) <= MaxFillerLines}

InitFiller ==
    /\ \E s \in InputsFiller : content = TextOf(s)
    /\ lines = <<>>
    /\ line_idx = 0
    /\ pc = "start"
    /\ file_header = None
    /\ batches = <<>>
    /\ header = None
    /\ entries = <<>>
    /\ entry = None
    /\ result = None
    /\ prev = None
    /\ edits = 0

\* AchFile::parse is called again on the edited input.
ParseAgain(c) ==
    /\ content' = c
    /\ prev' = result
    /\ edits' = edits + 1
    /\ lines' = <<>>
    /\ line_idx' = 0
    /\ pc' = "start"
    /\ file_header' = None
    /\ batches' = <<>>
    /\ header' = None
    /\ entries' = <<>>
    /\ entry' = None
    /\ result' = None

InsertFiller ==
    /\ pc = "done"
    /\ edits < MaxEdits
    /\ \E p \in 0..Len(content), n \in FillerLengths :
           ParseAgain(InsertAt(content, p, Filler(n)))

RemoveFiller ==
    /\ pc = "done"
    /\ edits < MaxEdits
    /\ \E p \in 1..Len(content) :
           /\ \E n \in FillerLengths : content[p] = Filler(n)
           /\ ParseAgain(RemoveAt(content, p))

NextFiller == Next \/ InsertFiller \/ RemoveFiller

SpecFiller == InitFiller /\ [][NextFiller]_vars

(***************************************************************************)
(* A second parse of the same input with one count, hash or amount field   *)
(* of a batch control or file control line replaced by another unsigned    *)
(* integer.                                                                *)
(***************************************************************************)
MaxTotalsLines == 5

InputsTotals == {s \in Inputs : Len(s) <= MaxTotalsLines}

InitTotals ==
    /\ \E s \in InputsTotals : content = TextOf(s)
    /\ lines = <<>>
    /\ line_idx = 0
    /\ pc = "start"
    /\ file_header = None
    /\ batches = <<>>
    /\ header = None
    /\ entries = <<>>
    /\ entry = None
    /\ result = None
    /\ prev = None
    /\ edits = 0

\* Every numeric field of the line parses.
NumericFieldsParse(line) ==
    \A i \in 1..Len(NumericFields(line[1])) :
        LET f == NumericFields(line[1])[i]
        IN  parse_u64(Slice(line, f[2], f[3]), f[1]).ok

\* The replacement text of a field of width w: zero, or 7 padded with spaces.
TotalsText(form, w) ==
    IF form = "zero" THEN Rep("0", w) ELSE Rep(" ", w - 1) \o <<"7">>

\* The line with its first k numeric fields replaced.
RECURSIVE SetFields(_, _, _)
SetFields(line, k, form) ==
    IF k = 0 THEN line
    ELSE LET f == NumericFields(line[1])[k]
         IN  SetSlice(SetFields(line, k - 1, form), f[2], f[3],
                      TotalsText(form, f[3] - f[2]))

\* The line with its i-th numeric field replaced, or all of them when i = 0.
SetTotals(line, i, form) ==
    IF i = 0 THEN SetFields(line, Len(NumericFields(line[1])), form)
    ELSE LET f == NumericFields(line[1])[i]
         IN  SetSlice(line, f[2], f[3], TotalsText(form, f[3] - f[2]))

\* The input is parsed, then parsed once more with the fields of one control
\* line replaced.
ReplaceTotals ==
    /\ pc = "done"
    /\ prev = None
    /\ \E p \in 1..Len(content) :
           /\ Len(content[p]) = RecordLen
           /\ content[p][1] \in {"8", "9"}
           /\ ~IsPadding(content[p])
           /\ NumericFieldsParse(content[p])
           /\ \E i \in 0..Len(NumericFields(content[p][1])),
                  form \in {"zero", "seven"} :
                  /\ SetTotals(content[p], i, form) # content[p]
                  /\ ParseAgain(Replace(content, p,
                                        SetTotals(content[p], i, form)))

NextTotals == Next \/ ReplaceTotals

SpecTotals == InitTotals /\ [][NextTotals]_vars

(***************************************************************************)
(* A second parse of the same input with the addenda indicator [78:79) of  *)
(* every entry line set to "0" or to "1".                                  *)
(***************************************************************************)
MaxIndicatorLines == 7

InputsIndicator == {s \in Inputs : Len(s) <= MaxIndicatorLines}

InitIndicator ==
    /\ \E s \in InputsIndicator : content = TextOf(s)
    /\ lines = <<>>
    /\ line_idx = 0
    /\ pc = "start"
    /\ file_header = None
    /\ batches = <<>>
    /\ header = None
    /\ entries = <<>>
    /\ entry = None
    /\ result = None
    /\ prev = None
    /\ edits = 0

\* The lines of the input that have the length and discriminant of an entry.
EntryLines(c) == {p \in 1..Len(c) : Len(c[p]) = RecordLen /\ c[p][1] = "6"}

\* The input with the indicator "1" on the entry lines of S and "0" on the
\* other entry lines.
SetIndicators(c, S) ==
    [p \in 1..Len(c) |->
        IF p \in EntryLines(c)
        THEN SetSlice(c[p], 78, 79, IF p \in S THEN <<"1">> ELSE <<"0">>)
        ELSE c[p]]

ReplaceIndicators ==
    /\ pc = "done"
    /\ prev = None
    /\ \E S \in SUBSET EntryLines(content) :
           ParseAgain(SetIndicators(content, S))

NextIndicator == Next \/ ReplaceIndicators

SpecIndicator == InitIndicator /\ [][NextIndicator]_vars

(***************************************************************************)
(* The record decoders called on their own, as the unit tests of parser.rs *)
(* call them: one line, one decoder, and the value it returns.  `pc` holds *)
(* the name of the decoder that returned.                                  *)
(***************************************************************************)
\* The lines handed to a decoder: every line of the pool but the fillers, a
\* blank line of 94 characters for every discriminant, and each of these cut
\* to 93 characters or extended to 95; the empty line.
DecodeLines94 ==
    {Text(t) : t \in Pool \ FillerNames} \cup {Blank(c, 94) : c \in Codes}

DecodeInputs ==
    DecodeLines94
        \cup {SubSeq(l, 1, 93) : l \in {m \in DecodeLines94 : Len(m) = 94}}
        \cup {l \o <<"0">> : l \in {m \in DecodeLines94 : Len(m) = 94}}
        \cup {<<>>}

InitDecode ==
    /\ \E l \in DecodeInputs : content = <<l>>
    /\ lines = <<>>
    /\ line_idx = 0
    /\ pc = "decode"
    /\ file_header = None
    /\ batches = <<>>
    /\ header = None
    /\ entries = <<>>
    /\ entry = None
    /\ result = None
    /\ prev = None
    /\ edits = 0

\* The decoder named d returns r.
Returns(d, r) ==
    /\ pc = "decode"
    /\ pc' = d
    /\ result' = r
    /\ UNCHANGED <<content, lines, line_idx, file_header, batches, header,
                   entries, entry, prev, edits>>

CallFileHeader == Returns("parse_file_header", parse_file_header(content[1]))

CallBatchHeader == Returns("parse_batch_header", parse_batch_header(content[1]))

CallEntryDetail == Returns("parse_entry_detail", parse_entry_detail(content[1]))

CallAddenda == Returns("parse_addenda", parse_addenda(content[1]))

CallBatchControl ==
    Returns("parse_batch_control", parse_batch_control(content[1]))

CallFileControl == Returns("parse_file_control", parse_file_control(content[1]))

NextDecode ==
    \/ CallFileHeader
    \/ CallBatchHeader
    \/ CallEntryDetail
    \/ CallAddenda
    \/ CallBatchControl
    \/ CallFileControl

SpecDecode == InitDecode /\ [][NextDecode]_vars

TypeOK ==
    /\ line_idx \in 0..Len(lines)
    /\ pc \in {"start", "file_header", "file_loop", "file_control",
               "batch_header", "batch_loop", "entry_detail", "addenda_loop",
               "batch_control", "done"}
    /\ (pc = "done") <=> (result # None)

(***************************************************************************)
(* The vocabulary of the properties, stated on the input alone.            *)
(***************************************************************************)
Done == pc = "done"

\* A line is padding iff every character of it is the filler digit.
HasOtherChar(line) == \E i \in 1..Len(line) : line[i] # "9"

NonPadding(c) == SelectSeq(c, HasOtherChar)

NP == NonPadding(content)

\* The numeric fields of a line of 94 characters parse as unsigned integers.
NumericOK(line) ==
    CASE line[1] = "6" -> parse_u64(Slice(line, 29, 39), "amount").ok
      [] line[1] = "8" ->
            /\ parse_u64(Slice(line, 4, 10), "entry_addenda_count").ok
            /\ parse_u64(Slice(line, 10, 20), "entry_hash").ok
            /\ parse_u64(Slice(line, 20, 32), "total_debit_amount").ok
            /\ parse_u64(Slice(line, 32, 44), "total_credit_amount").ok
      [] line[1] = "9" ->
            /\ parse_u64(Slice(line, 1, 7), "batch_count").ok
            /\ parse_u64(Slice(line, 7, 13), "block_count").ok
            /\ parse_u64(Slice(line, 13, 21), "entry_addenda_count").ok
            /\ parse_u64(Slice(line, 21, 31), "entry_hash").ok
            /\ parse_u64(Slice(line, 31, 43), "total_debit_amount").ok
            /\ parse_u64(Slice(line, 43, 55), "total_credit_amount").ok
      [] OTHER -> TRUE

\* The grammar of the format (1, batches of 5, entries 6 with addenda 7, 8,
\* then 9) as an automaton on the discriminants:
\* "file" is outside a batch, "batch" is after a batch header, "entry" is
\* after an entry or one of its addenda, "end" is after the file control,
\* "bad" is after a line that is faulty or out of place.
GrammarStep(st, line) ==
    IF st \in {"bad", "end"} \/ Len(line) # 94 THEN "bad"
    ELSE IF ~NumericOK(line) THEN "bad"
    ELSE CASE st = "start" /\ line[1] = "1" -> "file"
           [] st = "file" /\ line[1] = "5" -> "batch"
           [] st = "file" /\ line[1] = "9" -> "end"
           [] st \in {"batch", "entry"} /\ line[1] = "6" -> "entry"
           [] st = "entry" /\ line[1] = "7" -> "entry"
           [] st \in {"batch", "entry"} /\ line[1] = "8" -> "file"
           [] OTHER -> "bad"

RECURSIVE After(_, _)
After(ls, k) == IF k = 0 THEN "start" ELSE GrammarStep(After(ls, k - 1), ls[k])

Discriminants(ls) == [i \in 1..Len(ls) |-> ls[i][1]]

\* The records of a tree in the order of their lines.
RECURSIVE FlattenEntries(_)
FlattenEntries(es) ==
    IF es = <<>> THEN <<>>
    ELSE <<[Head(es) EXCEPT !.addenda = <<>>]>> \o Head(es).addenda
             \o FlattenEntries(Tail(es))

RECURSIVE FlattenBatches(_)
FlattenBatches(bs) ==
    IF bs = <<>> THEN <<>>
    ELSE <<Head(bs).header>> \o FlattenEntries(Head(bs).entries)
             \o <<Head(bs).control>> \o FlattenBatches(Tail(bs))

FlattenFile(f) ==
    <<f.file_header>> \o FlattenBatches(f.batches) \o <<f.file_control>>

\* The record of one well-coded line.
DecodeLine(line) ==
    CASE line[1] = "1" -> parse_file_header(line).val
      [] line[1] = "5" -> parse_batch_header(line).val
      [] line[1] = "6" -> parse_entry_detail(line).val
      [] line[1] = "7" -> parse_addenda(line).val
      [] line[1] = "8" -> parse_batch_control(line).val
      [] line[1] = "9" -> parse_file_control(line).val

DecodeLines(ls) == [i \in 1..Len(ls) |-> DecodeLine(ls[i])]

AddendaCounts(es) == [i \in 1..Len(es) |-> Len(es[i].addenda)]

(***************************************************************************)
(* C1: an input whose non-padding lines are, by discriminant, a file       *)
(* header, zero or more batches (5, entries 6 each followed by zero or     *)
(* more 7, 8) and a file control, all 94 characters long with parsable     *)
(* numeric fields, parses to Ok, and the tree holds one record per line:   *)
(* read in order (header, each batch's header, each entry followed by its  *)
(* addenda, the batch control, ..., file control) the records of the tree  *)
(* are the decoded lines of the input in input order.                      *)
(***************************************************************************)
C1_WellFormedParsesToTree ==
    (Done /\ After(NP, Len(NP)) = "end") =>
        /\ result.ok
        /\ FlattenFile(result.val) = DecodeLines(NP)

C1_Witness ==
    /\ Done
    /\ Discriminants(NP) = <<"1", "5", "6", "7", "6", "6", "8", "9">>
    /\ After(NP, Len(NP)) = "end"
    /\ result.ok
    /\ Len(result.val.batches) = 1
    /\ AddendaCounts(result.val.batches[1].entries) = <<1, 0, 0>>
    /\ result.val.batches[1].entries[2] # result.val.batches[1].entries[3]

(***************************************************************************)
(* C2: at every point of the parse of an open batch, the entries built so  *)
(* far, each followed by its addenda list, are the decoded lines after the *)
(* batch header up to the cursor, in order: every addenda line consumed is *)
(* in the list of the nearest preceding entry line, in encounter order,    *)
(* and in no other list.                                                   *)
(***************************************************************************)
InBatch == pc \in {"batch_loop", "entry_detail", "addenda_loop", "batch_control"}

\* The index of the header line of the open batch.
OpenBatchStart ==
    CHOOSE i \in 1..line_idx :
        /\ lines[i][1] = "5"
        /\ \A j \in (i + 1)..line_idx : lines[j][1] # "5"

OpenEntries == IF pc = "addenda_loop" THEN Append(entries, entry) ELSE entries

C2_AddendaOwnedByPrecedingEntry ==
    InBatch =>
        /\ \E i \in 1..line_idx :
               /\ lines[i][1] = "5"
               /\ \A j \in (i + 1)..line_idx : lines[j][1] \in {"6", "7"}
        /\ FlattenEntries(OpenEntries)
               = DecodeLines(SubSeq(lines, OpenBatchStart + 1, line_idx))
        /\ \A i \in 1..Len(OpenEntries) :
               /\ OpenEntries[i].record_type = <<"6">>
               /\ \A j \in 1..Len(OpenEntries[i].addenda) :
                      OpenEntries[i].addenda[j].record_type = <<"7">>

C2_Witness ==
    /\ pc = "addenda_loop"
    /\ Len(entries) = 1
    /\ Len(entry.addenda) = 2
    /\ entry.addenda[1] # entry.addenda[2]

(***************************************************************************)
(* C3: parsing an input again with a line made only of '9' inserted or     *)
(* removed at any position gives the same result, tree or error, and no    *)
(* line made only of '9' is among the lines the assembler reads.           *)
(***************************************************************************)
C3_FillerTransparent ==
    /\ (Done /\ edits > 0) => result = prev
    /\ \A i \in 1..Len(lines) : HasOtherChar(lines[i])

C3_Witness ==
    /\ Done
    /\ edits = 2
    /\ result.ok
    /\ Len(content) > Len(lines)
    /\ Len(result.val.batches) > 0

(***************************************************************************)
(* C4: the result is EmptyFile exactly when no non-padding line remains.   *)
(***************************************************************************)
C4_EmptyFileIff ==
    Done => ((result = Err(EmptyFile)) <=> (Len(NP) = 0))

C4_Witness ==
    /\ Done
    /\ result = Err(EmptyFile)
    /\ Len(content) = 2
    /\ content[1] # content[2]

(***************************************************************************)
(* C5 as stated: every non-padding line whose length is not 94 makes the   *)
(* parse fail with InvalidLineLength of that line's length, wherever the   *)
(* line stands and whatever its discriminant.                              *)
(***************************************************************************)
C5_AnyBadLengthLine ==
    Done => \A i \in 1..Len(NP) :
                Len(NP[i]) # 94 => result = Err(InvalidLineLength(Len(NP[i])))

\* The assembler hands a line of discriminant c to a record decoder in
\* state st: any first line, '5' or '9' outside a batch, '6' or '8' inside
\* a batch, '7' after an entry.
Dispatched(st, c) ==
    \/ st = "start"
    \/ st = "file" /\ c \in {"5", "9"}
    \/ st \in {"batch", "entry"} /\ c \in {"6", "8"}
    \/ st = "entry" /\ c = "7"

(***************************************************************************)
(* C5, amended: a non-padding line whose length is not 94 makes the parse  *)
(* fail with InvalidLineLength of its length when every line before it was *)
(* accepted and the line is handed to a record decoder (it is the first    *)
(* line, or its discriminant is one the assembler dispatches on there).    *)
(***************************************************************************)
C5_BadLengthAtDecoder ==
    Done => \A k \in 0..(Len(NP) - 1) :
                (Len(NP[k + 1]) # 94 /\ Dispatched(After(NP, k), NP[k + 1][1]))
                    => result = Err(InvalidLineLength(Len(NP[k + 1])))

C5_Witness ==
    /\ Done
    /\ line_idx = 3
    /\ After(NP, 3) = "entry"
    /\ NP[4][1] = "7"
    /\ Len(NP[4]) = 95
    /\ result = Err(InvalidLineLength(95))

(***************************************************************************)
(* C6: when the first non-padding line is no file header (wrong length or  *)
(* first character other than '1') the parse fails with the cursor still   *)
(* on that line and nothing built; a first line of 94 characters whose     *)
(* first character c is not '1' gives InvalidRecordType(c).                *)
(***************************************************************************)
C6_FirstLineMustBeFileHeader ==
    (Done /\ Len(NP) > 0 /\ (Len(NP[1]) # 94 \/ NP[1][1] # "1")) =>
        /\ ~result.ok
        /\ line_idx = 0
        /\ file_header = None
        /\ batches = <<>>
        /\ (Len(NP[1]) = 94 =>
                result = Err(InvalidRecordType(<<NP[1][1]>>)))

C6_Witness ==
    /\ Done
    /\ Len(NP) = 3
    /\ NP[1][1] = "X"
    /\ NP[2][1] = "1"
    /\ result = Err(InvalidRecordType(<<"X">>))

OutsideBatchOther ==
    \E k \in 1..(Len(NP) - 1) :
        After(NP, k) = "file" /\ NP[k + 1][1] \notin {"5", "9"}

(***************************************************************************)
(* C7: outside a batch (after the file header or after a batch control) a  *)
(* next line whose discriminant is neither '5' nor '9' makes the parse     *)
(* fail with InvalidStructure, whatever the length or content of the line. *)
(***************************************************************************)
C7_OutsideBatchUnexpected ==
    (Done /\ OutsideBatchOther) =>
        /\ ~result.ok
        /\ result.err.kind = "InvalidStructure"

C7_Witness ==
    /\ Done
    /\ Len(NP) >= 4
    /\ After(NP, 3) = "file"
    /\ NP[4][1] = "6"
    /\ Len(NP[4]) = 3
    /\ result.err.kind = "InvalidStructure"

(***************************************************************************)
(* C8: when the input ends inside a batch (every line accepted, a batch    *)
(* header consumed and no batch control after it) the parse fails with     *)
(* IncompleteBatch.                                                        *)
(***************************************************************************)
C8_EndInsideBatch ==
    (Done /\ Len(NP) > 0 /\ After(NP, Len(NP)) \in {"batch", "entry"}) =>
        result = Err(IncompleteBatch(MissingBatchControl))

C8_Witness ==
    /\ Done
    /\ After(NP, Len(NP)) = "entry"
    /\ NP[Len(NP)][1] = "7"
    /\ Len(entries) = 1
    /\ result.err.kind = "IncompleteBatch"

InBatchHeaderOrFileControl ==
    \E k \in 1..(Len(NP) - 1) :
        After(NP, k) \in {"batch", "entry"} /\ NP[k + 1][1] \in {"5", "9"}

(***************************************************************************)
(* C9 as stated: an open batch directly followed by a '5' or '9' line      *)
(* instead of an '8' line makes the parse fail with IncompleteBatch.       *)
(***************************************************************************)
C9_MissingControlIsIncompleteBatch ==
    (Done /\ InBatchHeaderOrFileControl) =>
        /\ ~result.ok
        /\ result.err.kind = "IncompleteBatch"

(***************************************************************************)
(* C9, amended: an open batch directly followed by a '5' or '9' line makes *)
(* the parse fail with InvalidStructure, naming that discriminant as       *)
(* unexpected in the batch.                                                *)
(***************************************************************************)
C9_MissingControlIsInvalidStructure ==
    (Done /\ InBatchHeaderOrFileControl) =>
        /\ ~result.ok
        /\ result.err.kind = "InvalidStructure"
        /\ result.err.msg = UnexpectedInBatchAt(<<lines[line_idx + 1][1]>>, line_idx)
        /\ lines[line_idx + 1][1] \in {"5", "9"}

C9_Witness ==
    /\ Done
    /\ InBatchHeaderOrFileControl
    /\ Discriminants(NP) = <<"1", "5", "6", "9">>
    /\ result = Err(InvalidStructure(UnexpectedInBatchAt(<<"9">>, 3)))

(***************************************************************************)
(* C10: when the input ends outside any batch before a file control (the   *)
(* file header alone, or the file header and complete batches) the parse   *)
(* fails with InvalidStructure "Missing file control record".              *)
(***************************************************************************)
C10_EndWithoutFileControl ==
    (Done /\ Len(NP) > 0 /\ After(NP, Len(NP)) = "file") =>
        result = Err(InvalidStructure(MissingFileControl))

C10_Witness ==
    /\ Done
    /\ After(NP, Len(NP)) = "file"
    /\ Len(batches) = 1
    /\ Len(batches[1].entries) > 0
    /\ result = Err(InvalidStructure(MissingFileControl))

\* A non-padding line follows the line accepted as the file control.
LineAfterFileControl ==
    \E k \in 1..(Len(NP) - 1) : After(NP, k) = "end"

(***************************************************************************)
(* C11: the file control is the last record: when a non-padding line       *)
(* follows the file control line, the parse does not return Ok.            *)
(***************************************************************************)
C11_FileControlIsLast ==
    (Done /\ LineAfterFileControl) => ~result.ok

(***************************************************************************)
(* C12 as stated: a returned tree has one or more batches and every batch  *)
(* of it has one or more entries.                                          *)
(***************************************************************************)
C12_AtLeastOneBatchAndEntry ==
    (Done /\ result.ok) =>
        /\ Len(result.val.batches) >= 1
        /\ \A b \in 1..Len(result.val.batches) :
               Len(result.val.batches[b].entries) >= 1

\* The index of the line accepted as the file control.
FileControlIndex == CHOOSE k \in 1..Len(NP) : After(NP, k) = "end"

\* The indices of the batch header lines up to the file control.
BatchHeaderIndices == {i \in 1..FileControlIndex : NP[i][1] = "5"}

\* The index of the n-th batch header line.
NthBatchHeader(n) ==
    CHOOSE i \in BatchHeaderIndices :
        Cardinality({j \in BatchHeaderIndices : j <= i}) = n

\* The index of the first batch control line after line i.
BatchControlAfter(i) ==
    CHOOSE j \in (i + 1)..FileControlIndex :
        /\ NP[j][1] = "8"
        /\ \A m \in (i + 1)..(j - 1) : NP[m][1] # "8"

EntryLinesOfBatch(n) ==
    {m \in NthBatchHeader(n)..BatchControlAfter(NthBatchHeader(n)) :
        NP[m][1] = "6"}

(***************************************************************************)
(* C12, amended: a returned tree has zero or more batches, one per batch   *)
(* header line of the input, and each batch has zero or more entries, one  *)
(* per entry line between its header and its control.  A file header       *)
(* directly followed by the file control is accepted with no batch, and a  *)
(* batch header directly followed by its batch control is accepted as a    *)
(* batch with no entries.                                                  *)
(***************************************************************************)
C12_BatchesAndEntriesAsInInput ==
    /\ (Done /\ result.ok) =>
           /\ \E k \in 1..Len(NP) : After(NP, k) = "end"
           /\ Len(result.val.batches) = Cardinality(BatchHeaderIndices)
           /\ \A n \in 1..Len(result.val.batches) :
                  Len(result.val.batches[n].entries)
                      = Cardinality(EntryLinesOfBatch(n))
    /\ (Done /\ Discriminants(NP) = <<"1", "9">>
             /\ After(NP, 2) = "end") =>
           result.ok /\ result.val.batches = <<>>
    /\ (Done /\ Len(NP) >= 4 /\ After(NP, 2) = "batch" /\ After(NP, 3) = "file"
             /\ After(NP, Len(NP)) = "end") =>
           result.ok /\ result.val.batches[1].entries = <<>>

C12_Witness ==
    /\ Done
    /\ result.ok
    /\ Discriminants(NP) = <<"1", "5", "8", "5", "6", "8", "9">>
    /\ Len(result.val.batches) = 2
    /\ result.val.batches[1].entries = <<>>
    /\ Len(result.val.batches[2].entries) = 1

TotalsNames ==
    {"batch_count", "block_count", "entry_addenda_count", "entry_hash",
     "total_debit_amount", "total_credit_amount"}

\* A control record without its count, hash and amount fields.
WithoutTotals(rec) == [k \in (DOMAIN rec) \ TotalsNames |-> rec[k]]

\* A tree without the count, hash and amount fields of its control records.
TreeShape(f) ==
    [file_header |-> f.file_header,
     batches |-> [b \in 1..Len(f.batches) |->
                     [header |-> f.batches[b].header,
                      entries |-> f.batches[b].entries,
                      control |-> WithoutTotals(f.batches[b].control)]],
     file_control |-> WithoutTotals(f.file_control)]

(***************************************************************************)
(* C13: parsing an input again with a count, hash or amount field of a     *)
(* batch control or file control line replaced by another parsable         *)
(* unsigned integer succeeds exactly when the parse before did; when both  *)
(* succeed the two trees are equal apart from the count, hash and amount   *)
(* fields of their control records, and when both fail the error is the    *)
(* same.                                                                   *)
(***************************************************************************)
C13_TotalsNotReconciled ==
    (Done /\ edits > 0) =>
        /\ result.ok = prev.ok
        /\ result.ok => TreeShape(result.val) = TreeShape(prev.val)
        /\ ~result.ok => result = prev

C13_Witness ==
    /\ Done
    /\ edits = 1
    /\ result.ok
    /\ Len(result.val.batches) = 1
    /\ Len(result.val.batches[1].entries) = 1
    /\ result.val.batches[1].control.entry_addenda_count = 7
    /\ result.val.batches[1].control.total_credit_amount = 7
    /\ prev.val.batches[1].control.entry_addenda_count = 4

\* The text is an unsigned integer: digits, after an optional plus sign.
UnsignedInteger(t) ==
    \/ Len(t) > 0 /\ \A i \in 1..Len(t) : t[i] \in Digits
    \/ Len(t) > 1 /\ t[1] = "+" /\ \A i \in 2..Len(t) : t[i] \in Digits

\* The indices of the numeric fields of the line whose trimmed text is no
\* unsigned integer.
BadFields(line) ==
    {i \in 1..Len(NumericFields(line[1])) :
        LET f == NumericFields(line[1])[i]
        IN  ~UnsignedInteger(Trim(Slice(line, f[2], f[3])))}

FirstBadField(line) ==
    CHOOSE i \in BadFields(line) : \A j \in BadFields(line) : i <= j

\* Line k + 1 is an entry line reached inside a batch, a batch control line
\* reached inside a batch or a file control line reached outside a batch, of
\* 94 characters, with a numeric field that is no unsigned integer.
BadNumberAt(k) ==
    /\ Len(NP[k + 1]) = 94
    /\ \/ After(NP, k) \in {"batch", "entry"} /\ NP[k + 1][1] \in {"6", "8"}
       \/ After(NP, k) = "file" /\ NP[k + 1][1] = "9"
    /\ BadFields(NP[k + 1]) # {}

(***************************************************************************)
(* C14: an entry line of 94 characters reached inside a batch whose amount *)
(* field [29:39), trimmed, is no unsigned integer makes the parse fail     *)
(* with InvalidNumber of field "amount"; a batch control or file control   *)
(* line reached in its place with an unparsable numeric field makes it     *)
(* fail with InvalidNumber naming that field (the first such field of the  *)
(* line), and the cursor stays on the line.                                *)
(***************************************************************************)
C14_InvalidNumberNamesField ==
    Done => \A k \in 1..(Len(NP) - 1) :
                BadNumberAt(k) =>
                    /\ ~result.ok
                    /\ result.err.kind = "InvalidNumber"
                    /\ result.err.field
                           = NumericFields(NP[k + 1][1])[FirstBadField(NP[k + 1])][1]
                    /\ (NP[k + 1][1] = "6" => result.err.field = "amount")
                    /\ line_idx = k

C14_Witness ==
    /\ Done
    /\ Len(NP) >= 3
    /\ BadNumberAt(2)
    /\ NP[3][1] = "6"
    /\ Slice(NP[3], 29, 39) = <<"X", "X">> \o Rep(" ", 8)
    /\ result = Err(InvalidNumber("amount", "InvalidDigit"))

\* The fault of the first unparsable numeric field of a line.
NumberFault(line) ==
    LET f == NumericFields(line[1])[FirstBadField(line)]
        t == Trim(Slice(line, f[2], f[3]))
    IN  InvalidNumber(f[1], IF Len(t) = 0 THEN "Empty" ELSE "InvalidDigit")

\* The error of a faulty line at index k (0-based) that follows an accepted
\* prefix ending in grammar state st.
ErrorOf(st, line, k) ==
    IF st = "file" /\ line[1] \notin {"5", "9"}
    THEN InvalidStructure(UnexpectedAt(<<line[1]>>, k))
    ELSE IF st = "batch" /\ line[1] \notin {"6", "8"}
    THEN InvalidStructure(UnexpectedInBatchAt(<<line[1]>>, k))
    ELSE IF st = "entry" /\ line[1] \notin {"6", "7", "8"}
    THEN InvalidStructure(UnexpectedInBatchAt(<<line[1]>>, k))
    ELSE IF Len(line) # 94 THEN InvalidLineLength(Len(line))
    ELSE IF st = "start" THEN InvalidRecordType(<<line[1]>>)
    ELSE NumberFault(line)

\* Line k + 1 is the first faulty line.
FirstFaultAt(k) ==
    /\ After(NP, k) \notin {"bad", "end"}
    /\ After(NP, k + 1) = "bad"

(***************************************************************************)
(* C15: when a line fails classification or decoding after an accepted     *)
(* prefix, the result is the error of that line, determined by the state   *)
(* the prefix leaves, the line and its index alone; the result holds no    *)
(* tree, and the cursor is still on that line, so no later line was read.  *)
(***************************************************************************)
C15_FailFast ==
    Done => \A k \in 0..(Len(NP) - 1) :
                FirstFaultAt(k) =>
                    /\ result = Err(ErrorOf(After(NP, k), NP[k + 1], k))
                    /\ DOMAIN result = {"ok", "err"}
                    /\ line_idx = k

C15_Witness ==
    /\ Done
    /\ Len(NP) = 6
    /\ FirstFaultAt(3)
    /\ After(NP, 3) = "entry"
    /\ NP[4] = Blank("7", 3)
    /\ GrammarStep("entry", NP[5]) = "file"
    /\ line_idx = 3
    /\ batches = <<>>
    /\ result = Err(InvalidLineLength(3))

\* The documented byte layout of each record kind, as
\* <<field, start, end, numeric>> with 0-based half-open ranges.
Layout(c) ==
    CASE c = "1" ->
           << <<"record_type", 0, 1, FALSE>>,
              <<"priority_code", 1, 3, FALSE>>,
              <<"immediate_destination", 3, 13, FALSE>>,
              <<"immediate_origin", 13, 23, FALSE>>,
              <<"file_creation_date", 23, 29, FALSE>>,
              <<"file_creation_time", 29, 33, FALSE>>,
              <<"file_id_modifier", 33, 34, FALSE>>,
              <<"record_size", 34, 37, FALSE>>,
              <<"blocking_factor", 37, 39, FALSE>>,
              <<"format_code", 39, 40, FALSE>>,
              <<"immediate_destination_name", 40, 63, FALSE>>,
              <<"immediate_origin_name", 63, 86, FALSE>>,
              <<"reference_code", 86, 94, FALSE>> >>
      [] c = "5" ->
           << <<"record_type", 0, 1, FALSE>>,
              <<"service_class_code", 1, 4, FALSE>>,
              <<"company_name", 4, 20, FALSE>>,
              <<"company_discretionary_data", 20, 40, FALSE>>,
              <<"company_identification", 40, 50, FALSE>>,
              <<"standard_entry_class_code", 50, 53, FALSE>>,
              <<"company_entry_description", 53, 63, FALSE>>,
              <<"company_descriptive_date", 63, 69, FALSE>>,
              <<"effective_entry_date", 69, 75, FALSE>>,
              <<"settlement_date", 75, 78, FALSE>>,
              <<"originator_status_code", 78, 79, FALSE>>,
              <<"originating_dfi_identification", 79, 87, FALSE>>,
              <<"batch_number", 87, 94, FALSE>> >>
      [] c = "6" ->
           << <<"record_type", 0, 1, FALSE>>,
              <<"transaction_code", 1, 3, FALSE>>,
              <<"receiving_dfi_identification", 3, 11, FALSE>>,
              <<"check_digit", 11, 12, FALSE>>,
              <<"dfi_account_number", 12, 29, FALSE>>,
              <<"amount", 29, 39, TRUE>>,
              <<"individual_identification_number", 39, 54, FALSE>>,
              <<"individual_name", 54, 76, FALSE>>,
              <<"discretionary_data", 76, 78, FALSE>>,
              <<"addenda_record_indicator", 78, 79, FALSE>>,
              <<"trace_number", 79, 94, FALSE>> >>
      [] c = "7" ->
           << <<"record_type", 0, 1, FALSE>>,
              <<"addenda_type_code", 1, 3, FALSE>>,
              <<"payment_related_information", 3, 83, FALSE>>,
              <<"addenda_sequence_number", 83, 87, FALSE>>,
              <<"entry_detail_sequence_number", 87, 94, FALSE>> >>
      [] c = "8" ->
           << <<"record_type", 0, 1, FALSE>>,
              <<"service_class_code", 1, 4, FALSE>>,
              <<"entry_addenda_count", 4, 10, TRUE>>,
              <<"entry_hash", 10, 20, TRUE>>,
              <<"total_debit_amount", 20, 32, TRUE>>,
              <<"total_credit_amount", 32, 44, TRUE>>,
              <<"company_identification", 44, 54, FALSE>>,
              <<"message_authentication_code", 54, 73, FALSE>>,
              <<"reserved", 73, 79, FALSE>>,
              <<"originating_dfi_identification", 79, 87, FALSE>>,
              <<"batch_number", 87, 94, FALSE>> >>
      [] c = "9" ->
           << <<"record_type", 0, 1, FALSE>>,
              <<"batch_count", 1, 7, TRUE>>,
              <<"block_count", 7, 13, TRUE>>,
              <<"entry_addenda_count", 13, 21, TRUE>>,
              <<"entry_hash", 21, 31, TRUE>>,
              <<"total_debit_amount", 31, 43, TRUE>>,
              <<"total_credit_amount", 43, 55, TRUE>>,
              <<"reserved", 55, 94, FALSE>> >>

RecordKinds == {"1", "5", "6", "7", "8", "9"}

\* The ranges of a layout start at 0, end at 94 and follow one another.
Contiguous(lay) ==
    /\ lay[1][2] = 0
    /\ lay[Len(lay)][3] = 94
    /\ \A i \in 1..(Len(lay) - 1) : lay[i][3] = lay[i + 1][2]
    /\ \A i \in 1..Len(lay) : lay[i][2] < lay[i][3]

\* The integer a numeric field's text stands for.
ValueOf(t) == DecimalValue(IF t[1] = "+" THEN Tail(t) ELSE t, 0)

\* The value the layout entry f gives its field of a line.
FieldOf(line, f) ==
    IF f[4] THEN ValueOf(Trim(Slice(line, f[2], f[3])))
    ELSE Slice(line, f[2], f[3])

\* The line is correctly coded: 94 characters, a known discriminant, and
\* numeric fields that are unsigned integers.
CorrectlyCoded(line) ==
    /\ Len(line) = 94
    /\ line[1] \in RecordKinds
    /\ LET lay == Layout(line[1])
       IN  \A i \in 1..Len(lay) :
               lay[i][4] =>
                   UnsignedInteger(Trim(Slice(line, lay[i][2], lay[i][3])))

\* The record agrees with the layout on every field of the line.
AgreesWithLayout(rec, line) ==
    LET lay == Layout(line[1])
    IN  /\ DOMAIN rec \ {"addenda"} = {lay[i][1] : i \in 1..Len(lay)}
        /\ \A i \in 1..Len(lay) : rec[lay[i][1]] = FieldOf(line, lay[i])

\* The decoder of the line's kind applied to the line.
Decode(line) ==
    CASE line[1] = "1" -> parse_file_header(line)
      [] line[1] = "5" -> parse_batch_header(line)
      [] line[1] = "6" -> parse_entry_detail(line)
      [] line[1] = "7" -> parse_addenda(line)
      [] line[1] = "8" -> parse_batch_control(line)
      [] line[1] = "9" -> parse_file_control(line)

(***************************************************************************)
(* C16: the documented layout of each of the six record kinds starts at 0, *)
(* ends at 94 and has neither gap nor overlap; the decoder of a kind       *)
(* succeeds on a line of 94 characters of that kind exactly when the       *)
(* line's numeric fields, at their documented ranges, are unsigned         *)
(* integers, and then every field of the record is the line's slice at its *)
(* documented range (the integer value of the trimmed slice for a numeric  *)
(* field); the records of a returned tree agree with the layout on the     *)
(* lines they were decoded from.                                           *)
(***************************************************************************)
C16_DecodersFollowLayout ==
    /\ \A c \in RecordKinds : Contiguous(Layout(c))
    /\ Done =>
           \A i \in 1..Len(lines) :
               (Len(lines[i]) = 94 /\ lines[i][1] \in RecordKinds) =>
                   LET r == Decode(lines[i])
                   IN  /\ r.ok <=> CorrectlyCoded(lines[i])
                       /\ r.ok => AgreesWithLayout(r.val, lines[i])
    /\ (Done /\ result.ok) =>
           LET recs == FlattenFile(result.val)
           IN  \A i \in 1..Len(recs) : AgreesWithLayout(recs[i], lines[i])

C16_Witness ==
    /\ Done
    /\ result.ok
    /\ Discriminants(lines) = <<"1", "5", "6", "7", "8", "9">>
    /\ \A i \in 1..6 : CorrectlyCoded(lines[i])
    /\ result.val.batches[1].entries[1].addenda[1].addenda_sequence_number
           = <<"F", "G", "H", "I">>
    /\ result.val.batches[1].entries[1].amount = 1000
    /\ result.val.batches[1].control.total_credit_amount = 56

\* The number of batch control lines among the first k lines.
ControlsUpTo(k) == Cardinality({j \in 1..k : lines[j][1] = "8"})

\* Line k + 1 follows an open batch and its discriminant opens no entry,
\* closes no batch and continues no addenda list.
OtherInBatchAt(k) ==
    /\ After(NP, k) \in {"batch", "entry"}
    /\ NP[k + 1][1] \notin {"6", "8"}
    /\ ~(After(NP, k) = "entry" /\ NP[k + 1][1] = "7")

(***************************************************************************)
(* C17: inside an open batch, the entry decoder is only entered on a '6'   *)
(* line and the batch control decoder only on an '8' line; a batch is      *)
(* only opened outside any batch (after the file header or after a batch   *)
(* control), and every batch control consumed has closed one batch; a line *)
(* with any other discriminant ('1', '5', '9', unknown, or '7' with no     *)
(* entry before it) makes the parse fail with the cursor on that line.     *)
(***************************************************************************)
C17_InBatchDispatch ==
    /\ pc = "entry_detail" =>
           /\ Cur[1] = "6"
           /\ After(lines, line_idx) \in {"batch", "entry"}
    /\ (pc = "batch_control" /\ ~AtEnd) =>
           /\ Cur[1] = "8"
           /\ After(lines, line_idx) \in {"batch", "entry"}
    /\ pc = "addenda_loop" =>
           /\ lines[line_idx][1] \in {"6", "7"}
           /\ After(lines, line_idx) = "entry"
    /\ pc = "batch_header" =>
           /\ Cur[1] = "5"
           /\ After(lines, line_idx) = "file"
    /\ pc = "file_loop" =>
           /\ After(lines, line_idx) = "file"
           /\ Len(batches) = ControlsUpTo(line_idx)
    /\ Done =>
           \A k \in 1..(Len(NP) - 1) :
               OtherInBatchAt(k) =>
                   /\ ~result.ok
                   /\ result.err.kind = "InvalidStructure"
                   /\ line_idx = k
                   /\ Len(batches) = ControlsUpTo(k)

C17_Witness ==
    /\ Done
    /\ Len(NP) >= 5
    /\ OtherInBatchAt(3)
    /\ After(NP, 3) = "entry"
    /\ CorrectlyCoded(NP[4])
    /\ NP[4][1] = "5"
    /\ result = Err(InvalidStructure(UnexpectedInBatchAt(<<"5">>, 3)))

\* Line k + 1 is an addenda line with no open entry: it follows the file
\* header, a batch control or a batch header.
OrphanAddendaAt(k) ==
    /\ After(NP, k) \in {"file", "batch"}
    /\ NP[k + 1][1] = "7"

\* The number of addenda records held by the batches built.
AddendaBuilt ==
    Cardinality({i \in 1..Len(FlattenBatches(batches)) :
                    FlattenBatches(batches)[i].record_type = <<"7">>})

(***************************************************************************)
(* C18: an addenda line that follows the file header, a batch control or a *)
(* batch header makes the parse fail with InvalidStructure naming '7' as   *)
(* the unexpected record type at that line; the cursor stays on the line   *)
(* and the batches built hold exactly the addenda of the lines before it.  *)
(***************************************************************************)
C18_AddendaWithoutEntry ==
    Done => \A k \in 1..(Len(NP) - 1) :
                OrphanAddendaAt(k) =>
                    /\ result = Err(InvalidStructure(
                                  IF After(NP, k) = "file"
                                  THEN UnexpectedAt(<<"7">>, k)
                                  ELSE UnexpectedInBatchAt(<<"7">>, k)))
                    /\ line_idx = k
                    /\ Len(batches) = ControlsUpTo(k)
                    /\ AddendaBuilt
                           = Cardinality({j \in 1..k : NP[j][1] = "7"})

C18_Witness ==
    /\ Done
    /\ Len(NP) = 6
    /\ OrphanAddendaAt(4)
    /\ After(NP, 4) = "file"
    /\ CorrectlyCoded(NP[5])
    /\ Len(batches) = 1
    /\ Len(batches[1].entries) = 1
    /\ batches[1].entries[1].addenda = <<>>
    /\ result = Err(InvalidStructure(UnexpectedAt(<<"7">>, 4)))

(***************************************************************************)
(* C19: in every batch of a returned tree the batch control's service      *)
(* class code, company identification and batch number equal those of the  *)
(* batch's header.                                                         *)
(***************************************************************************)
C19_ControlRestatesHeader ==
    (Done /\ result.ok) =>
        \A b \in 1..Len(result.val.batches) :
            LET h == result.val.batches[b].header
                c == result.val.batches[b].control
            IN  /\ c.service_class_code = h.service_class_code
                /\ c.company_identification = h.company_identification
                /\ c.batch_number = h.batch_number

\* The program points reached without moving the cursor, ranked by how many
\* steps can still follow before the cursor moves or the parse ends.
Rank(p) ==
    CASE p = "addenda_loop" -> 3
      [] p \in {"batch_loop", "file_loop"} -> 2
      [] p \in {"file_header", "batch_header", "entry_detail",
                "batch_control", "file_control"} -> 1
      [] p = "done" -> 0

\* A bound on the steps left: four per line not yet passed.
StepsLeft(ls, idx, p) == 4 * (Len(ls) - idx) + Rank(p)

\* A step of the assembler after the filter: the lines are unchanged, the
\* cursor stays or moves one line forward, and the bound on the steps left
\* decreases; a step of a loop that stays in the loop moves the cursor.
StepAdvances ==
    pc # "start" =>
        /\ lines' = lines
        /\ line_idx' \in {line_idx, line_idx + 1}
        /\ line_idx' <= Len(lines)
        /\ StepsLeft(lines', line_idx', pc') < StepsLeft(lines, line_idx, pc)
        /\ (pc' = pc) => line_idx' = line_idx + 1

(***************************************************************************)
(* C20: the cursor never decreases and never passes the end, every step of *)
(* the file-level, batch-level and addenda loops moves the cursor forward  *)
(* or leaves the loop, at most four steps are taken per filtered line, and *)
(* the parse reaches its end.                                              *)
(***************************************************************************)
C20_CursorAdvances == [][StepAdvances]_vars /\ <>Done

C20_Witness ==
    /\ Done
    /\ Discriminants(lines) = <<"1", "5", "6", "7">>
    /\ line_idx = Len(lines)
    /\ Len(entries) = 1
    /\ Len(entries[1].addenda) = 1
    /\ result = Err(IncompleteBatch(MissingBatchControl))

\* The discriminant a decoder expects.
CodeOf(d) ==
    CASE d = "parse_file_header" -> "1"
      [] d = "parse_batch_header" -> "5"
      [] d = "parse_entry_detail" -> "6"
      [] d = "parse_addenda" -> "7"
      [] d = "parse_batch_control" -> "8"
      [] d = "parse_file_control" -> "9"

Decoders ==
    {"parse_file_header", "parse_batch_header", "parse_entry_detail",
     "parse_addenda", "parse_batch_control", "parse_file_control"}

(***************************************************************************)
(* C21: a decoder called on a line whose length is not 94 returns          *)
(* InvalidLineLength of that length, whatever the line's discriminant and  *)
(* fields; on a line of 94 characters with another discriminant than its   *)
(* own it returns InvalidRecordType of that discriminant, also when the    *)
(* numeric ranges of its kind hold no number; on a line of its kind it     *)
(* returns InvalidNumber for the leftmost unparsable numeric field, and Ok *)
(* when there is none.                                                     *)
(***************************************************************************)
C21_DecoderCheckOrder ==
    pc \in Decoders =>
        LET line == content[1]
            c == CodeOf(pc)
        IN  IF Len(line) # 94
            THEN result = Err(InvalidLineLength(Len(line)))
            ELSE IF line[1] # c
            THEN result = Err(InvalidRecordType(<<line[1]>>))
            ELSE IF BadFields(line) # {}
            THEN result = Err(NumberFault(line))
            ELSE result.ok

C21_Witness ==
    /\ pc = "parse_batch_control"
    /\ Len(content[1]) = 94
    /\ content[1][1] = "8"
    /\ BadFields(content[1]) = {2, 4}
    /\ result = Err(InvalidNumber("entry_hash", "Empty"))

StructureError == Done /\ ~result.ok /\ result.err.kind = "InvalidStructure"

(***************************************************************************)
(* C22 as stated: the message of every InvalidStructure error holds the    *)
(* offending discriminant and a line position.                             *)
(***************************************************************************)
C22_EveryMessageHasCodeAndPosition ==
    StructureError =>
        {"record_type", "line_idx"} \subseteq DOMAIN result.err.msg

(***************************************************************************)
(* C22, amended: an InvalidStructure error returned with a line at the     *)
(* cursor is the error of an unexpected record, and its message holds that *)
(* line's discriminant and the cursor's position; an InvalidStructure      *)
(* error returned with the cursor at the end of the input has the fixed    *)
(* message "Missing file control record", with neither code nor position.  *)
(***************************************************************************)
C22_MessageOfUnexpectedRecord ==
    StructureError =>
        IF line_idx < Len(lines)
        THEN /\ DOMAIN result.err.msg = {"text", "record_type", "line_idx"}
             /\ result.err.msg.record_type = <<lines[line_idx + 1][1]>>
             /\ result.err.msg.line_idx = line_idx
             /\ result.err.msg.text
                    \in {UnexpectedAt(<<>>, 0).text, UnexpectedInBatchAt(<<>>, 0).text}
        ELSE /\ result.err.msg = MissingFileControl
             /\ DOMAIN result.err.msg = {"text"}

C22_Witness ==
    /\ StructureError
    /\ Len(lines) = 6
    /\ line_idx = 3
    /\ lines[4] = Blank("X", 94)
    /\ result.err.msg.record_type = <<"X">>
    /\ result.err.msg.line_idx = 3

\* s is t followed by at most one more element.
GrowsByAtMostOne(s, t) ==
    /\ Len(t) \in {Len(s), Len(s) + 1}
    /\ SubSeq(t, 1, Len(s)) = s

\* What one step may do to the records built so far.
StepKeepsRecords ==
    /\ file_header # None => file_header' = file_header
    /\ file_header' # file_header =>
           /\ pc = "file_header"
           /\ file_header' = DecodeLine(Cur)
    /\ GrowsByAtMostOne(batches, batches') \/ pc = "start" \/ pc = "file_header"
    /\ batches' # batches =>
           \/ pc = "batch_control"
              /\ batches' = Append(batches,
                                   [header |-> header, entries |-> entries,
                                    control |-> DecodeLine(Cur)])
           \/ pc \in {"start", "file_header"} /\ batches' = <<>>
    /\ header' # header =>
           /\ pc = "batch_header"
           /\ header' = DecodeLine(Cur)
    /\ entries' # entries =>
           \/ pc = "batch_header" /\ entries' = <<>>
           \/ pc = "addenda_loop" /\ pc' = "batch_loop"
              /\ entries' = Append(entries, entry)
    /\ entry' # entry =>
           \/ pc = "entry_detail"
              /\ entry' = DecodeLine(Cur)
              /\ entry'.addenda = <<>>
           \/ pc = "addenda_loop"
              /\ entry' = [entry EXCEPT !.addenda = Append(@, DecodeLine(Cur))]
    /\ result # None => result' = result
    /\ (result' # None /\ result'.ok) =>
           /\ result'.val.file_header = file_header
           /\ result'.val.batches = batches
           /\ result'.val.file_control = DecodeLine(Cur)

(***************************************************************************)
(* C23: a step builds at most the record of the line at the cursor and     *)
(* leaves every record built before as it was: the file header, the open   *)
(* batch's header, the entries pushed onto the open batch and the batches  *)
(* pushed onto the file never change, the open entry changes only by the   *)
(* append of the addenda decoded from the line at the cursor, and the tree *)
(* returned holds the records as they were built.                          *)
(***************************************************************************)
C23_RecordsBuiltOnce == [][pc # "done" => StepKeepsRecords]_vars

C23_Witness ==
    /\ pc = "addenda_loop"
    /\ file_header # None
    /\ Len(batches) = 1
    /\ entries = <<>>
    /\ Len(entry.addenda) = 1

\* The grammar on the discriminants alone: the state after one more line.
ShapeStep(st, c) ==
    CASE st = "start" /\ c = "1" -> "file"
      [] st = "file" /\ c = "5" -> "batch"
      [] st = "file" /\ c = "9" -> "end"
      [] st \in {"batch", "entry"} /\ c = "6" -> "entry"
      [] st = "entry" /\ c = "7" -> "entry"
      [] st \in {"batch", "entry"} /\ c = "8" -> "file"
      [] OTHER -> "bad"

RECURSIVE ShapeAfter(_, _)
ShapeAfter(ls, k) ==
    IF k = 0 THEN "start" ELSE ShapeStep(ShapeAfter(ls, k - 1), ls[k][1])

\* The first k lines are a file header, batches and a file control by their
\* discriminants, are 94 characters long each, and the numeric fields of the
\* entry, batch control and file control lines among them are unsigned
\* integers.
AcceptedPrefix(ls, k) ==
    /\ ShapeAfter(ls, k) = "end"
    /\ \A i \in 1..k :
           /\ Len(ls[i]) = 94
           /\ ls[i][1] \in {"6", "8", "9"} => BadFields(ls[i]) = {}

EmptyLineBetweenRecords(i) ==
    /\ 1 < i /\ i < Len(content)
    /\ content[i] = <<>>
    /\ HasOtherChar(content[i - 1])
    /\ HasOtherChar(content[i + 1])

(***************************************************************************)
(* C25: no empty line is among the filtered lines, so the classifier       *)
(* get_record_type never fails on the line at the cursor, and the parse    *)
(* never returns InvalidLineLength(0).                                     *)
(***************************************************************************)
C25_NoEmptyLineClassified ==
    /\ \A i \in 1..Len(lines) : Len(lines[i]) > 0
    /\ (pc \in {"file_loop", "batch_loop", "addenda_loop"} /\ ~AtEnd)
           => get_record_type(Cur).ok
    /\ (Done /\ ~result.ok /\ result.err.kind = "InvalidLineLength")
           => result.err.len # 0

C25_Witness ==
    /\ Done
    /\ result.ok
    /\ Len(result.val.batches) = 1
    /\ \E i \in 1..Len(content) : EmptyLineBetweenRecords(i)

\* The discriminant a decoding step expects of the line at the cursor.
ExpectedCode ==
    [batch_header |-> "5", entry_detail |-> "6", batch_control |-> "8",
     file_control |-> "9"]

\* Line k + 1 is the first line out of place by its discriminant, and is not
\* the first line.
MismatchAt(k) ==
    /\ After(NP, k) \in {"file", "batch", "entry"}
    /\ ShapeStep(After(NP, k), NP[k + 1][1]) = "bad"

(***************************************************************************)
(* C26: InvalidRecordType is returned only for the first non-padding line, *)
(* when it is 94 characters long and its discriminant is not '1'; a        *)
(* decoder of a record of kind 5, 6, 7, 8 or 9 is called only on a line    *)
(* whose discriminant the assembler has matched, and a later line whose    *)
(* discriminant is out of place is reported as InvalidStructure.           *)
(***************************************************************************)
C26_RecordTypeErrorOnlyFirstLine ==
    /\ (Done /\ ~result.ok /\ result.err.kind = "InvalidRecordType") =>
           /\ line_idx = 0
           /\ Len(NP[1]) = 94
           /\ NP[1][1] # "1"
           /\ result.err.code = <<NP[1][1]>>
    /\ (pc \in DOMAIN ExpectedCode /\ ~AtEnd) => Cur[1] = ExpectedCode[pc]
    /\ Done => \A k \in 1..(Len(NP) - 1) :
                   MismatchAt(k) =>
                       /\ ~result.ok
                       /\ result.err.kind = "InvalidStructure"
                       /\ line_idx = k

C26_Witness ==
    /\ Done
    /\ Len(NP) = 5
    /\ MismatchAt(3)
    /\ After(NP, 3) = "entry"
    /\ NP[4][1] = "5"
    /\ Len(NP[4]) = 95

\* The next step calls a decoder on the line at the cursor.
DecoderStep ==
    /\ ~AtEnd
    /\ \/ pc \in {"file_header", "batch_header", "entry_detail",
                  "batch_control", "file_control"}
       \/ pc = "addenda_loop" /\ Cur[1] = "7"

\* The discriminant of the record kind that decoder decodes.
DecoderCode ==
    CASE pc = "file_header" -> "1"
      [] pc = "batch_header" -> "5"
      [] pc = "entry_detail" -> "6"
      [] pc = "addenda_loop" -> "7"
      [] pc = "batch_control" -> "8"
      [] pc = "file_control" -> "9"

\* What that decoder returns for the line.
DecoderResult(line) ==
    CASE pc = "file_header" -> parse_file_header(line)
      [] pc = "batch_header" -> parse_batch_header(line)
      [] pc = "entry_detail" -> parse_entry_detail(line)
      [] pc = "addenda_loop" -> parse_addenda(line)
      [] pc = "batch_control" -> parse_batch_control(line)
      [] pc = "file_control" -> parse_file_control(line)

(***************************************************************************)
(* C27: the cursor never passes the number of filtered lines and is below  *)
(* it wherever a line is read without a test of the cursor; no filtered    *)
(* line is empty, so its first character can be read; and a decoder takes  *)
(* the field ranges of its record kind only from a line whose length it    *)
(* has validated, which is then 94 and holds every range, while a line of  *)
(* another length gets the length error and nothing else.                  *)
(***************************************************************************)
C27_NoOutOfRangeAccess ==
    /\ line_idx <= Len(lines)
    /\ pc \in {"file_header", "batch_header", "entry_detail"}
           => line_idx < Len(lines)
    /\ \A i \in 1..Len(lines) : Len(lines[i]) > 0
    /\ DecoderStep =>
           IF validate_line_length(Cur).ok
           THEN /\ Len(Cur) = 94
                /\ \A i \in 1..Len(Layout(DecoderCode)) :
                       Layout(DecoderCode)[i][3] <= Len(Cur)
           ELSE DecoderResult(Cur) = validate_line_length(Cur)

C27_Witness ==
    /\ pc = "entry_detail"
    /\ line_idx = 2
    /\ Len(lines) = 5
    /\ Len(Cur) = 3

\* The number of non-padding lines among the first p lines of the input.
KeptUpTo(p) == Len(NonPadding(SubSeq(content, 1, p)))

\* Line p of the input is a non-padding line out of place by its
\* discriminant, after a file header and lines in place.
OffendingAt(p) ==
    /\ HasOtherChar(content[p])
    /\ MismatchAt(KeptUpTo(p - 1))

\* The number of filler and empty lines before line p of the input.
FillersBefore(p) == Cardinality({q \in 1..(p - 1) : ~HasOtherChar(content[q])})

(***************************************************************************)
(* C28: the position in the InvalidStructure message of an unexpected      *)
(* record is the number of non-padding lines before the offending line,    *)
(* its 0-based index among the filtered lines; with p the line's number in *)
(* the input counted from one, it is p - 1 less the number of filler and   *)
(* empty lines before it, hence p - 1 exactly when none precedes it.       *)
(***************************************************************************)
C28_PositionIsFilteredIndex ==
    (StructureError /\ line_idx < Len(lines)) =>
        /\ \E p \in 1..Len(content) : OffendingAt(p)
        /\ \A p \in 1..Len(content) :
               OffendingAt(p) =>
                   /\ result.err.msg.line_idx = KeptUpTo(p - 1)
                   /\ result.err.msg.line_idx = p - 1 - FillersBefore(p)
                   /\ (result.err.msg.line_idx = p - 1) <=> (FillersBefore(p) = 0)

C28_Witness ==
    /\ StructureError
    /\ line_idx < Len(lines)
    /\ Len(content) >= 4
    /\ OffendingAt(4)
    /\ FillersBefore(4) = 1
    /\ content[2] = <<>>
    /\ result.err.msg.line_idx = 2

\* The tree with the addenda indicator of every entry blanked.
ClearEntry(e) == [e EXCEPT !.addenda_record_indicator = <<" ">>]

ClearBatch(b) ==
    [b EXCEPT !.entries = [i \in 1..Len(b.entries) |-> ClearEntry(b.entries[i])]]

ClearIndicators(f) ==
    [f EXCEPT !.batches = [i \in 1..Len(f.batches) |-> ClearBatch(f.batches[i])]]

\* The entries of a tree, batch after batch.
RECURSIVE EntriesOf(_)
EntriesOf(bs) ==
    IF bs = <<>> THEN <<>> ELSE Head(bs).entries \o EntriesOf(Tail(bs))

(***************************************************************************)
(* C29: the parse of an input and the parse of the same input with the     *)
(* addenda indicator of its entry lines set to "0" or "1" at will fail     *)
(* with the same error or return trees that differ in the indicator field  *)
(* of the entries only: every entry owns the same addenda whatever its     *)
(* indicator, so an entry of indicator "0" keeps the type-7 lines that     *)
(* follow it and an entry of indicator "1" followed by none is accepted    *)
(* with an empty list.                                                     *)
(***************************************************************************)
C29_IndicatorIgnored ==
    (Done /\ prev # None) =>
        /\ result.ok <=> prev.ok
        /\ ~result.ok => result.err = prev.err
        /\ result.ok =>
               /\ ClearIndicators(result.val) = ClearIndicators(prev.val)
               /\ AddendaCounts(EntriesOf(result.val.batches))
                      = AddendaCounts(EntriesOf(prev.val.batches))

C29_Witness ==
    /\ Done
    /\ prev # None
    /\ result.ok
    /\ Len(result.val.batches) = 1
    /\ Len(result.val.batches[1].entries) = 2
    /\ result.val.batches[1].entries[1].addenda_record_indicator = <<"0">>
    /\ Len(result.val.batches[1].entries[1].addenda) = 1
    /\ result.val.batches[1].entries[2].addenda_record_indicator = <<"1">>
    /\ result.val.batches[1].entries[2].addenda = <<>>

====
